---- MODULE Spec2Model ----
(***************************************************************************)
(* Model of the video receiver of the Driver application:                  *)
(*   VideoStreamReceiver / VideoImageProvider                              *)
(*   (src/src/includes/videoscreenreciever.hpp).                           *)
(*                                                                         *)
(* Two execution contexts are modelled.  The consumer context is the Qt    *)
(* main thread: startStream, stopStream, the two QTimer slots, the queued  *)
(* lambda of processNewSample and the destructor run there, one handler at *)
(* a time.  The producer context is the GStreamer streaming thread that    *)
(* calls onNewSample.  The GStreamer library and the Qt event loop are the *)
(* environment: construction and state-change results, bus messages,       *)
(* samples and the clock are inputs.                                       *)
(*                                                                         *)
(* A handler is an operator from a world record (all the variables a       *)
(* handler can write) to a world record, composed statement by statement   *)
(* in the order of the source; an action applies one handler and commits.  *)
(***************************************************************************)
EXTENDS Integers, Sequences, FiniteSets, TLC

\* ------------------------------------------------------------------ bounds
MaxFrames    == 2      \* samples the producer hands off in one run
MaxQueue     == 2      \* queued hand-offs pending in the event loop
MaxBus       == 1      \* messages pending on the pipeline bus
MaxBusDrain  == 2      \* the same where the polling of the bus is examined
MaxClockStep == 3      \* number of clock steps in one run
MaxPipelines == 2      \* GStreamer pipeline objects allocated at once
MaxWidth     == 3         \* widest test frame, in pixels
MaxHeight    == 2         \* highest test frame, in rows
MaxPadding   == 1         \* most padding at the end of a row of a test buffer
MaxTimers    == 4      \* QTimer objects existing at once

\* ------------------------------------------------------- program constants
NULL               == 0
INT_MAX            == 2147483647
INT_MIN            == (-2147483647) - 1
PlaceholderWidth   == 640
PlaceholderHeight  == 480
Black              == 0
FrameTimeoutMs     == 3000
FrameTimerInterval == 1000
BusTimerInterval   == 50

\* The clock advances in steps of one and a half timeout-timer periods, so that
\* a frame can be exactly FrameTimeoutMs old.
ClockStepMs == FrameTimerInterval + FrameTimerInterval \div 2
ClockStart  == ClockStepMs
ClockEnd    == ClockStart + MaxClockStep * ClockStepMs

Ports        == {5000, 5001}
ErrorDetails == {"no element \"rtpjpegdepay\""}
RequestIds   == {"placeholder", "frame_1"}

\* ------------------------------------------------------------------- images
\* A QImage: width, height and the pixels in row-major order.  A solid image
\* keeps its single colour instead of width*height equal pixels.
FillImage(width, height, color) ==
    [width |-> width, height |-> height, solid |-> TRUE, color |-> color, pixels |-> <<>>]

NullImage == [width |-> 0, height |-> 0, solid |-> FALSE, color |-> Black, pixels |-> <<>>]

\* The image a torn read produces: no frame the receiver ever stored.
TornImage == [width |-> 0, height |-> 0, solid |-> FALSE, color |-> Black, pixels |-> <<-1>>]

PixelAt(img, x, y) ==
    IF img.solid THEN img.color ELSE img.pixels[y * img.width + x + 1]

\* QImage(map.data, width, height, stride, Format_RGB888).copy(): row y of the
\* image is the first `width` pixels of row y of the buffer; the padding up to
\* `stride` is not part of the image.
ImageFromBuffer(data, width, height, stride) ==
    [width |-> width, height |-> height, solid |-> FALSE, color |-> Black,
     pixels |-> [i \in 1..(width * height) |->
                    data[((i - 1) \div width) * stride + ((i - 1) % width) + 1]]]

\* A mirrored() that flips the columns only
mirrored_columnsOnly(img, horizontal, vertical) ==
    IF img.solid THEN img
    ELSE [img EXCEPT !.pixels =
            [i \in 1..(img.width * img.height) |->
                LET x  == (i - 1) % img.width
                    y  == (i - 1) \div img.width
                    sx == IF horizontal THEN img.width - 1 - x ELSE x
                IN  PixelAt(img, sx, y)]]

\* QImage::mirrored(horizontal, vertical)
mirrored(img, horizontal, vertical) ==
    IF img.solid THEN img
    ELSE [img EXCEPT !.pixels =
            [i \in 1..(img.width * img.height) |->
                LET x  == (i - 1) % img.width
                    y  == (i - 1) \div img.width
                    sx == IF horizontal THEN img.width - 1 - x ELSE x
                    sy == IF vertical THEN img.height - 1 - y ELSE y
                IN  PixelAt(img, sx, sy)]]

ImageSize(img) == <<img.width, img.height>>

\* ------------------------------------------------------------------ samples
\* What gst_app_sink_pull_sample can deliver.  `kind` says which of the checks
\* of onNewSample / processNewSample the sample fails, "ok" passes them all.
Pad == 9
OkSamples ==
    { [kind |-> "ok", width |-> 2, height |-> 1, stride |-> 2, data |-> <<1, 2>>],
      [kind |-> "ok", width |-> 2, height |-> 2, stride |-> 3,
       data |-> <<1, 2, Pad, 3, 4, Pad>>] }
\* Test frames with a pattern that has no symmetry: every pixel has a value
\* of its own, every row ends with `padding` bytes that are not part of it.
PatternBase == 10
TestBuffer(width, height, padding) ==
    [i \in 1..(height * (width + padding)) |->
        LET row == (i - 1) \div (width + padding)
            col == (i - 1) % (width + padding)
        IN  IF col < width THEN PatternBase + row * width + col ELSE Pad]
TestSamples ==
    { [kind |-> "ok", width |-> width, height |-> height, stride |-> width + padding,
       data |-> TestBuffer(width, height, padding)] :
          width \in 1..MaxWidth, height \in 1..MaxHeight, padding \in 0..MaxPadding }
BadSample(kind) == [kind |-> kind, width |-> 0, height |-> 0, stride |-> 0, data |-> <<>>]
BadKinds == {"null", "nobuffer", "badcaps", "nomap"}
Samples  == OkSamples \cup {BadSample(k) : k \in BadKinds}

\* ------------------------------------------------------------- bus messages
BusMessages ==
    { [type |-> "ERROR", src |-> "pipeline", text |-> d] : d \in {"Internal data stream error."} }
    \cup { [type |-> t, src |-> "pipeline", text |-> ""] :
              t \in {"WARNING", "EOS", "STATE_CHANGED", "OTHER"} }
    \cup { [type |-> "STATE_CHANGED", src |-> "child", text |-> ""] }

\* -------------------------------------------------------------------- state
VARIABLES
    m_pipeline,          \* GstElement*: id of the pipeline object, or NULL
    m_appsink,           \* GstElement*: id of the pipeline whose sink is referenced, or NULL
    m_bus,               \* GstBus*: id of the pipeline whose bus is referenced, or NULL
    m_currentImage,      \* QImage
    m_frameId,           \* QString
    m_status,            \* QString
    m_frameCounter,      \* int (32 bit, signed)
    m_isStreaming,       \* bool
    m_hasActiveStream,   \* bool
    m_busTimer,          \* QTimer*: id of the timer object, or NULL
    m_frameTimeoutTimer, \* QTimer*: id of the timer object, or NULL
    m_lastFrameTime,     \* qint64, milliseconds since the epoch, 0 = no frame yet
    gstHeap,             \* the GStreamer pipeline objects that exist: id -> object
    qtimers,             \* the QTimer objects that exist: id -> object
    eventQueue,          \* the lambdas posted to the main thread, oldest first
    now,                 \* QDateTime::currentMSecsSinceEpoch()
    trace,               \* library calls and signals of the step taken last
    fetch,               \* the image provider's request on the image-loading thread
    lifecycle,           \* "alive", "destroyed" (destructor ran) or "aborted"
    handedOff            \* number of samples handed off so far (bounds the run)

\* SteeringController, SteeringControllerService and the libraries under them
VARIABLES
    m_joystick,          \* SDL_Joystick*: id of the open handle, or NULL
    m_pollTimer,         \* QTimer*: the poll timer; TRUE while it is active
    m_steering,          \* qreal, in units of 1 / AxisRange
    m_throttle,          \* qreal, in units of 1 / (2 * AxisRange)
    m_connected,         \* bool
    m_deviceName,        \* QString
    m_availableDevices,  \* QStringList
    m_deviceIndices,     \* std::vector<int>: SDL index of each listed device
    sdl,                 \* SDL: the attached joysticks and the handles that are open
    m_isConnected,       \* bool (the service)
    m_webSocket,         \* QWebSocket*: the state of the socket
    steerLog             \* library calls, signals and messages of the step taken last

steerVars == <<m_joystick, m_pollTimer, m_steering, m_throttle, m_connected,
               m_deviceName, m_availableDevices, m_deviceIndices, sdl,
               m_isConnected, m_webSocket, steerLog>>

vars == <<m_pipeline, m_appsink, m_bus, m_currentImage, m_frameId, m_status,
          m_frameCounter, m_isStreaming, m_hasActiveStream, m_busTimer,
          m_frameTimeoutTimer, m_lastFrameTime, gstHeap, qtimers, eventQueue,
          now, trace, fetch, lifecycle, handedOff, steerVars>>

\* The variables a consumer-context handler can write, as one record; a
\* handler starts from an empty trace.
World ==
    [m_pipeline |-> m_pipeline, m_appsink |-> m_appsink, m_bus |-> m_bus,
     m_currentImage |-> m_currentImage, m_frameId |-> m_frameId,
     m_status |-> m_status, m_frameCounter |-> m_frameCounter,
     m_isStreaming |-> m_isStreaming, m_hasActiveStream |-> m_hasActiveStream,
     m_busTimer |-> m_busTimer, m_frameTimeoutTimer |-> m_frameTimeoutTimer,
     m_lastFrameTime |-> m_lastFrameTime, gstHeap |-> gstHeap,
     qtimers |-> qtimers, eventQueue |-> eventQueue, now |-> now,
     trace |-> <<>>, lifecycle |-> lifecycle]

Commit(w) ==
    /\ m_pipeline' = w.m_pipeline
    /\ m_appsink' = w.m_appsink
    /\ m_bus' = w.m_bus
    /\ m_currentImage' = w.m_currentImage
    /\ m_frameId' = w.m_frameId
    /\ m_status' = w.m_status
    /\ m_frameCounter' = w.m_frameCounter
    /\ m_isStreaming' = w.m_isStreaming
    /\ m_hasActiveStream' = w.m_hasActiveStream
    /\ m_busTimer' = w.m_busTimer
    /\ m_frameTimeoutTimer' = w.m_frameTimeoutTimer
    /\ m_lastFrameTime' = w.m_lastFrameTime
    /\ gstHeap' = w.gstHeap
    /\ qtimers' = w.qtimers
    /\ eventQueue' = w.eventQueue
    /\ now' = w.now
    /\ trace' = w.trace
    /\ lifecycle' = w.lifecycle

\* ------------------------------------------------------------ trace entries
\* What an observer connected to the signals (or looking at the library) sees
\* at the moment of the signal or call: the properties as they are then.
Seen(w) ==
    [image |-> w.m_currentImage, frameId |-> w.m_frameId, status |-> w.m_status,
     isStreaming |-> w.m_isStreaming, hasActiveStream |-> w.m_hasActiveStream,
     pipeline |-> w.m_pipeline, appsink |-> w.m_appsink, bus |-> w.m_bus,
     busTimer |-> w.m_busTimer, frameTimeoutTimer |-> w.m_frameTimeoutTimer,
     port |-> IF w.m_pipeline \in DOMAIN w.gstHeap THEN w.gstHeap[w.m_pipeline].port ELSE 0]

\* The first entry of a consumer-context step: the handler that runs and the
\* properties as it finds them.
Enter(w, handler, arg) ==
    [w EXCEPT !.trace = Append(@, [kind |-> "enter", name |-> handler, arg |-> arg,
                                   seen |-> Seen(w)])]

Emit(w, signal, arg) ==
    [w EXCEPT !.trace = Append(@, [kind |-> "signal", name |-> signal, arg |-> arg,
                                   seen |-> Seen(w)])]

\* A library call and what it returned.
Call(w, name, result) ==
    [w EXCEPT !.trace = Append(@, [kind |-> "call", name |-> name, arg |-> result,
                                   seen |-> Seen(w)])]

Signals(tr) == SelectSeq(tr, LAMBDA e : e.kind = "signal")
SignalsNamed(tr, name) == SelectSeq(tr, LAMBDA e : e.kind = "signal" /\ e.name = name)
Calls(tr) == SelectSeq(tr, LAMBDA e : e.kind = "call")

\* ------------------------------------------------------------------ setters
\* setStatus without the comparison: it emits statusChanged every time
setStatus_emitsAlways(w, status) ==
    Emit([w EXCEPT !.m_status = status], "statusChanged", "")

setStatus(w, status) ==
    IF w.m_status # status
    THEN Emit([w EXCEPT !.m_status = status], "statusChanged", "")
    ELSE w

setStreaming(w, streaming) ==
    IF w.m_isStreaming # streaming
    THEN Emit([w EXCEPT !.m_isStreaming = streaming], "streamingChanged", "")
    ELSE w

setHasActiveStream(w, hasActiveStream) ==
    IF w.m_hasActiveStream # hasActiveStream
    THEN Emit([w EXCEPT !.m_hasActiveStream = hasActiveStream], "hasActiveStreamChanged", "")
    ELSE w

\* QString::number(int) and QString("frame_%1").arg(int): decimal digits
StatusStreamingOnPort(port) == "Streaming on port " \o ToString(port)
FrameIdOf(counter) == "frame_" \o ToString(counter)

\* ------------------------------------------------ library objects (the heap)
FreeIds(used, max) == (1..max) \ used
AllocId(used, max) == CHOOSE i \in FreeIds(used, max) : \A j \in FreeIds(used, max) : i <= j

\* gst_object_unref of one of the references the receiver holds; the object
\* goes away with its last reference.
gst_object_unref(heap, id, ref) ==
    IF heap[id].refs \ {ref} = {}
    THEN [i \in DOMAIN heap \ {id} |-> heap[i]]
    ELSE [heap EXCEPT ![id].refs = @ \ {ref}]

\* timer->stop(); timer->disconnect(); timer->deleteLater(); timer = nullptr:
\* the timer is stopped, has no slot left and is deleted by the event loop; it
\* is no longer among the timers that exist.
StopTimer(timers, id) ==
    [t \in DOMAIN timers \ {id} |-> timers[t]]

\* new QTimer(this); connect(timer, &QTimer::timeout, this, slot); timer->start(ms)
NewTimer(kind, interval) ==
    [kind |-> kind, interval |-> interval, active |-> TRUE, connected |-> TRUE]

\* --------------------------------------------------------------- stopStream
\* The statements of stopStream, in the order of the source.

\* if (m_busTimer) { stop(); disconnect(); deleteLater(); m_busTimer = nullptr; }
StopBusTimer(w) ==
    IF w.m_busTimer # NULL
    THEN Call([w EXCEPT !.qtimers = StopTimer(@, w.m_busTimer), !.m_busTimer = NULL],
              "busTimer.stop", "")
    ELSE w

\* if (m_frameTimeoutTimer) { ... m_frameTimeoutTimer = nullptr; }
StopFrameTimeoutTimer(w) ==
    IF w.m_frameTimeoutTimer # NULL
    THEN Call([w EXCEPT !.qtimers = StopTimer(@, w.m_frameTimeoutTimer),
                        !.m_frameTimeoutTimer = NULL], "frameTimeoutTimer.stop", "")
    ELSE w

\* if (m_bus) while ((msg = gst_bus_pop(m_bus)) != nullptr) gst_message_unref(msg);
FlushBus(w) ==
    IF w.m_bus # NULL
    THEN Call([w EXCEPT !.gstHeap[w.m_bus].bus = <<>>], "bus.flush", "")
    ELSE w

\* gst_element_set_state(m_pipeline, GST_STATE_NULL)
SetStateNull(w) ==
    Call([w EXCEPT !.gstHeap[w.m_pipeline].state = "NULL"], "set_state(NULL)", "")

\* if (m_appsink) { gst_object_unref(m_appsink); m_appsink = nullptr; }
UnrefAppsink(w) ==
    IF w.m_appsink # NULL
    THEN Call([w EXCEPT !.gstHeap = gst_object_unref(@, w.m_appsink, "sink"),
                        !.m_appsink = NULL], "unref(appsink)", "")
    ELSE w

\* if (m_bus) { gst_object_unref(m_bus); m_bus = nullptr; }
UnrefBus(w) ==
    IF w.m_bus # NULL
    THEN Call([w EXCEPT !.gstHeap = gst_object_unref(@, w.m_bus, "bus"),
                        !.m_bus = NULL], "unref(bus)", "")
    ELSE w

\* gst_object_unref(m_pipeline); m_pipeline = nullptr;
UnrefPipeline(w) ==
    Call([w EXCEPT !.gstHeap = gst_object_unref(@, w.m_pipeline, "graph"),
                   !.m_pipeline = NULL], "unref(pipeline)", "")

\* The end of stopStream without setHasActiveStream(false)
StoppedState_keepsActive(w) ==
    setStatus(setStreaming(w, FALSE), "Stopped")

\* The end of stopStream that also puts the placeholder back into the slot
StoppedState_clearsImage(w) ==
    setStatus(setHasActiveStream(setStreaming(
                  [w EXCEPT !.m_currentImage =
                                FillImage(PlaceholderWidth, PlaceholderHeight, Black)],
                  FALSE), FALSE), "Stopped")

\* The end of stopStream without setStreaming(false)
StoppedState_keepsStreaming(w) ==
    setStatus(setHasActiveStream(w, FALSE), "Stopped")

\* The end of stopStream that also starts the frame count again
StoppedState_resetsCounter(w) ==
    setStatus(setHasActiveStream(setStreaming([w EXCEPT !.m_frameCounter = 0], FALSE),
                                 FALSE), "Stopped")

\* setStreaming(false); setHasActiveStream(false); setStatus("Stopped");
StoppedState(w) ==
    setStatus(setHasActiveStream(setStreaming(w, FALSE), FALSE), "Stopped")

\* stopStream that updates the state also when there is no pipeline
stopStream_unguarded(w) ==
    IF w.m_pipeline # NULL
    THEN StoppedState(UnrefPipeline(UnrefBus(UnrefAppsink(SetStateNull(
             FlushBus(StopFrameTimeoutTimer(StopBusTimer(w))))))))
    ELSE StoppedState(w)

\* stopStream that updates the flags and the status before the teardown
stopStream_flagsFirst(w) ==
    IF w.m_pipeline # NULL
    THEN UnrefPipeline(UnrefBus(UnrefAppsink(SetStateNull(
             FlushBus(StopFrameTimeoutTimer(StopBusTimer(StoppedState(w))))))))
    ELSE w

stopStream(w) ==
    IF w.m_pipeline # NULL
    THEN StoppedState(UnrefPipeline(UnrefBus(UnrefAppsink(SetStateNull(
             FlushBus(StopFrameTimeoutTimer(StopBusTimer(w))))))))
    ELSE w

\* -------------------------------------------------------------- startStream
\* What gst_parse_launch can give back: a pipeline whose sink is found ("ok"),
\* a pipeline in which gst_bin_get_by_name finds no "sink" ("nosink"), an error
\* with no pipeline ("error_null"), or an error together with a partially
\* built pipeline ("error_partial": gst_parse_launch does not pass
\* GST_PARSE_FLAG_FATAL_ERRORS).
BuildOutcomes == {"ok", "nosink", "error_null", "error_partial"}
\* gst_element_set_state(m_pipeline, GST_STATE_PLAYING): GST_STATE_CHANGE_FAILURE or not
PlayOutcomes == {"success", "failure"}

\* The state change is attempted only on a pipeline that was built.
StartOutcomes ==
    {<<build, play>> \in BuildOutcomes \X PlayOutcomes : build # "ok" => play = "failure"}

NewPipeline(port) ==
    [port |-> port, state |-> "NULL", refs |-> {"graph"}, callbacks |-> FALSE, bus |-> <<>>]

\* StopExisting without the teardown of the pipeline that exists
StopExisting_keepsOld(w) ==
    setStatus(w, "Starting stream...")

\* if (m_pipeline) stopStream();  setStatus("Starting stream...");
StopExisting(w) ==
    setStatus(IF w.m_pipeline # NULL THEN stopStream(w) ELSE w, "Starting stream...")

\* m_pipeline = gst_parse_launch(pipelineStr, &error)
ParseLaunch(w, port, build) ==
    IF build = "error_null"
    THEN Call([w EXCEPT !.m_pipeline = NULL], "gst_parse_launch", build)
    ELSE Call([w EXCEPT !.gstHeap = (AllocId(DOMAIN w.gstHeap, MaxPipelines)
                                        :> NewPipeline(port)) @@ @,
                        !.m_pipeline = AllocId(DOMAIN w.gstHeap, MaxPipelines)],
              "gst_parse_launch", build)

\* if (error) { emit errorOccurred(errorMsg); setStatus("Error: " + message); return; }
PipelineError(w, detail) ==
    setStatus(Emit(w, "errorOccurred", "Failed to create pipeline: " \o detail),
              "Error: " \o detail)

\* if (!m_appsink) { setStatus(...); gst_object_unref(m_pipeline); m_pipeline = nullptr; return; }
AppsinkMissing(w) ==
    UnrefPipeline(setStatus(Call(w, "gst_bin_get_by_name", "null"),
                            "Error: Failed to initialize"))

\* m_appsink = gst_bin_get_by_name(GST_BIN(m_pipeline), "sink");
\* gst_app_sink_set_callbacks(GST_APP_SINK(m_appsink), &callbacks, this, nullptr);
ConfigureAppsink(w) ==
    Call([w EXCEPT !.m_appsink = w.m_pipeline,
                   !.gstHeap[w.m_pipeline].refs = @ \cup {"sink"},
                   !.gstHeap[w.m_pipeline].callbacks = TRUE],
         "gst_bin_get_by_name", "sink")

\* m_bus = gst_element_get_bus(m_pipeline);
GetBus(w) ==
    [w EXCEPT !.m_bus = w.m_pipeline, !.gstHeap[w.m_pipeline].refs = @ \cup {"bus"}]

\* m_busTimer = new QTimer(this); connect(...checkBusMessages); m_busTimer->start(50);
StartBusTimer(w) ==
    Call([w EXCEPT !.qtimers = (AllocId(DOMAIN w.qtimers, MaxTimers)
                                   :> NewTimer("bus", BusTimerInterval)) @@ @,
                   !.m_busTimer = AllocId(DOMAIN w.qtimers, MaxTimers)],
         "busTimer.start", "")

\* m_frameTimeoutTimer = new QTimer(this); connect(...checkFrameTimeout); start(1000);
StartFrameTimeoutTimer(w) ==
    Call([w EXCEPT !.qtimers = (AllocId(DOMAIN w.qtimers, MaxTimers)
                                   :> NewTimer("frame", FrameTimerInterval)) @@ @,
                   !.m_frameTimeoutTimer = AllocId(DOMAIN w.qtimers, MaxTimers)],
         "frameTimeoutTimer.start", "")

\* The reset of the time of the last frame without setHasActiveStream(false)
ResetFrameTracking_keepsActive(w) ==
    [w EXCEPT !.m_lastFrameTime = 0]

\* m_lastFrameTime = 0; setHasActiveStream(false);
ResetFrameTracking(w) ==
    setHasActiveStream([w EXCEPT !.m_lastFrameTime = 0], FALSE)

\* ret == GST_STATE_CHANGE_FAILURE:
\* The failure to start without the teardown
PlayFailed_noTeardown(w) ==
    Emit(setStatus(Call(w, "set_state(PLAYING)", "failure"), "Error: Failed to start"),
         "errorOccurred", "Failed to start stream")

\* The failure to start with the teardown first and the error status last
PlayFailed_errorStatusLast(w) ==
    Emit(setStatus(stopStream(Call(w, "set_state(PLAYING)", "failure")),
                   "Error: Failed to start"),
         "errorOccurred", "Failed to start stream")

\* setStatus("Error: Failed to start"); emit errorOccurred(...); stopStream(); return;
PlayFailed(w) ==
    stopStream(Emit(setStatus(Call(w, "set_state(PLAYING)", "failure"),
                              "Error: Failed to start"),
                    "errorOccurred", "Failed to start stream"))

\* The successful end of startStream without setStreaming(true)
PlaySucceeded_noFlag(w, port) ==
    setStatus(Call([w EXCEPT !.gstHeap[w.m_pipeline].state = "PLAYING"],
                   "set_state(PLAYING)", "success"),
              StatusStreamingOnPort(port))

\* otherwise: setStreaming(true); setStatus("Streaming on port " + QString::number(port));
PlaySucceeded(w, port) ==
    setStatus(setStreaming(Call([w EXCEPT !.gstHeap[w.m_pipeline].state = "PLAYING"],
                                "set_state(PLAYING)", "success"), TRUE),
              StatusStreamingOnPort(port))

\* from the appsink lookup to the end of startStream
StartPipeline(w, port, play) ==
    IF play = "failure"
    THEN PlayFailed(ResetFrameTracking(StartFrameTimeoutTimer(StartBusTimer(
             GetBus(ConfigureAppsink(w))))))
    ELSE PlaySucceeded(ResetFrameTracking(StartFrameTimeoutTimer(StartBusTimer(
             GetBus(ConfigureAppsink(w))))), port)

startStream(w, port, build, detail, play) ==
    IF build \in {"error_null", "error_partial"}
    THEN PipelineError(ParseLaunch(StopExisting(w), port, build), detail)
    ELSE IF build = "nosink"
    THEN AppsinkMissing(ParseLaunch(StopExisting(w), port, build))
    ELSE StartPipeline(ParseLaunch(StopExisting(w), port, build), port, play)

\* ------------------------------------------- processNewSample (producer part)
\* The image the producer hands off for a sample that passes the checks:
\* QImage(map.data, width, height, stride, Format_RGB888).copy().mirrored(true, true)
processNewSample(sample) ==
    mirrored(ImageFromBuffer(sample.data, sample.width, sample.height, sample.stride),
             TRUE, TRUE)

\* ---------------------------------- processNewSample (queued lambda, consumer)
\* m_frameCounter++ on a 32 bit int: beyond INT_MAX the behaviour is undefined;
\* the builds either wrap to INT_MIN or trap.
IncrementOutcomes(counter) ==
    IF counter < INT_MAX
    THEN {[trap |-> FALSE, value |-> counter + 1]}
    ELSE {[trap |-> FALSE, value |-> INT_MIN], [trap |-> TRUE, value |-> counter]}

\* m_frameCounter++; m_frameId = ...; m_lastFrameTime = currentMSecsSinceEpoch();
CountFrame(w, value) ==
    [w EXCEPT !.m_frameCounter = value, !.m_frameId = FrameIdOf(value),
              !.m_lastFrameTime = w.now]

\* The first frame marks the stream active and leaves the status alone
MarkActive_keepsStatus(w) ==
    IF ~w.m_hasActiveStream
    THEN setHasActiveStream(w, TRUE)
    ELSE w

\* Every frame sets the status
MarkActive_everyFrame(w) ==
    setStatus(setHasActiveStream(w, TRUE), "Streaming (receiving frames)")

\* if (!m_hasActiveStream) { setHasActiveStream(true); setStatus("Streaming (receiving frames)"); }
MarkActive(w) ==
    IF ~w.m_hasActiveStream
    THEN setStatus(setHasActiveStream(w, TRUE), "Streaming (receiving frames)")
    ELSE w

handOffLambda(w, newImage, inc) ==
    IF inc.trap
    THEN [w EXCEPT !.m_currentImage = newImage, !.lifecycle = "aborted"]
    ELSE Emit(MarkActive(CountFrame([w EXCEPT !.m_currentImage = newImage], inc.value)),
              "frameChanged", "")

\* --------------------------------------------------------- handleBusMessage
\* handleBusMessage that reports an error without recording it in the status
handleBusMessage_noStatus(w, message) ==
    CASE message.type = "ERROR" ->
            Emit(w, "errorOccurred", "GStreamer error: " \o message.text)
      [] message.type = "WARNING" -> w
      [] message.type = "EOS" -> setStatus(w, "Stream ended")
      [] message.type = "STATE_CHANGED" -> w
      [] OTHER -> w

\* handleBusMessage that takes an error for the end of streaming
handleBusMessage_stopsStreaming(w, message) ==
    CASE message.type = "ERROR" ->
            Emit(setStatus(setHasActiveStream(setStreaming(w, FALSE), FALSE),
                           "Error: " \o message.text),
                 "errorOccurred", "GStreamer error: " \o message.text)
      [] message.type = "WARNING" -> w
      [] message.type = "EOS" -> setStatus(w, "Stream ended")
      [] message.type = "STATE_CHANGED" -> w
      [] OTHER -> w

\* handleBusMessage that shows a warning in the status
handleBusMessage_warningStatus(w, message) ==
    CASE message.type = "ERROR" ->
            Emit(setStatus(w, "Error: " \o message.text),
                 "errorOccurred", "GStreamer error: " \o message.text)
      [] message.type = "WARNING" -> setStatus(w, "Warning")
      [] message.type = "EOS" -> setStatus(w, "Stream ended")
      [] message.type = "STATE_CHANGED" -> w
      [] OTHER -> w

handleBusMessage(w, message) ==
    CASE message.type = "ERROR" ->
            Emit(setStatus(w, "Error: " \o message.text),
                 "errorOccurred", "GStreamer error: " \o message.text)
      [] message.type = "WARNING" -> w
      [] message.type = "EOS" -> setStatus(w, "Stream ended")
      [] message.type = "STATE_CHANGED" -> w
      [] OTHER -> w

\* --------------------------------------------------------- checkBusMessages
RECURSIVE DrainBus(_)
DrainBus(w) ==
    IF w.gstHeap[w.m_bus].bus = <<>>
    THEN w
    ELSE LET message == Head(w.gstHeap[w.m_bus].bus)
             popped  == [w EXCEPT !.gstHeap[w.m_bus].bus = Tail(@)]
         IN  DrainBus(handleBusMessage(popped, message))

\* checkBusMessages with an `if` for the `while`: one message for each tick
checkBusMessages_oneMessage(w) ==
    IF w.m_bus = NULL \/ w.m_busTimer = NULL \/ w.m_pipeline = NULL
    THEN w
    ELSE IF w.gstHeap[w.m_bus].bus = <<>>
    THEN w
    ELSE handleBusMessage([w EXCEPT !.gstHeap[w.m_bus].bus = Tail(@)],
                          Head(w.gstHeap[w.m_bus].bus))

checkBusMessages(w) ==
    IF w.m_bus = NULL \/ w.m_busTimer = NULL \/ w.m_pipeline = NULL
    THEN w
    ELSE DrainBus(w)

\* -------------------------------------------------------- checkFrameTimeout
\* checkFrameTimeout with twice the threshold
checkFrameTimeout_slow(w) ==
    IF ~w.m_isStreaming \/ w.m_pipeline = NULL \/ w.m_frameTimeoutTimer = NULL
    THEN w
    ELSE IF w.m_lastFrameTime = 0
    THEN IF w.m_hasActiveStream
         THEN setStatus(setHasActiveStream(w, FALSE), "Waiting for video stream...")
         ELSE w
    ELSE IF w.now - w.m_lastFrameTime > 2 * FrameTimeoutMs
    THEN IF w.m_hasActiveStream
         THEN setStatus(setHasActiveStream(w, FALSE), "No video stream (timeout)")
         ELSE w
    ELSE w

\* checkFrameTimeout without the check of the flag and the pointers
checkFrameTimeout_unguarded(w) ==
    IF w.m_lastFrameTime = 0
    THEN IF w.m_hasActiveStream
         THEN setStatus(setHasActiveStream(w, FALSE), "Waiting for video stream...")
         ELSE w
    ELSE IF w.now - w.m_lastFrameTime > FrameTimeoutMs
    THEN IF w.m_hasActiveStream
         THEN setStatus(setHasActiveStream(w, FALSE), "No video stream (timeout)")
         ELSE w
    ELSE w

checkFrameTimeout(w) ==
    IF ~w.m_isStreaming \/ w.m_pipeline = NULL \/ w.m_frameTimeoutTimer = NULL
    THEN w
    ELSE IF w.m_lastFrameTime = 0
    THEN IF w.m_hasActiveStream
         THEN setStatus(setHasActiveStream(w, FALSE), "Waiting for video stream...")
         ELSE w
    ELSE IF w.now - w.m_lastFrameTime > FrameTimeoutMs
    THEN IF w.m_hasActiveStream
         THEN setStatus(setHasActiveStream(w, FALSE), "No video stream (timeout)")
         ELSE w
    ELSE w

\* ------------------------------------------- VideoImageProvider::requestImage
\* The image and the size written to *size; `id` is not used.
requestImage(image, id) ==
    [image |-> image, size |-> ImageSize(image)]

\* --------------------------------------------- SDL joysticks (the library)
MaxHandles == 2      \* SDL_Joystick handles open at once

\* SDL_JoystickNameForIndex returns NULL for a device without a name ("").
Wheel    == [name |-> "G29 Racing Wheel", axes |-> 3]
Gamepad  == [name |-> "Gamepad", axes |-> 2]
Nameless == [name |-> "", axes |-> 3]

\* What SDL_NumJoysticks / SDL_JoystickNameForIndex enumerate, by SDL index + 1
DeviceLists == {<<>>, <<Wheel>>, <<Nameless, Wheel>>, <<Wheel, Gamepad>>}

AxisMin   == -32768
AxisMax   == 32767
AxisRange == AxisMax - AxisMin

\* What SDL_JoystickGetAxis returns (a Sint16)
RawAxis == {AxisMin, 0, 20, AxisMax}

m_steeringAxis == 0
m_throttleAxis == 2

\* ------------------------------------------------------- steering log, world
\* The variables a handler of the controller or of the service can write, as
\* one record; a handler starts from an empty log.
SteerWorld ==
    [m_joystick |-> m_joystick, m_pollTimer |-> m_pollTimer,
     m_steering |-> m_steering, m_throttle |-> m_throttle,
     m_connected |-> m_connected, m_deviceName |-> m_deviceName,
     m_availableDevices |-> m_availableDevices,
     m_deviceIndices |-> m_deviceIndices, sdl |-> sdl,
     m_isConnected |-> m_isConnected, m_webSocket |-> m_webSocket,
     steerLog |-> <<>>]

SteerCommit(w) ==
    /\ m_joystick' = w.m_joystick
    /\ m_pollTimer' = w.m_pollTimer
    /\ m_steering' = w.m_steering
    /\ m_throttle' = w.m_throttle
    /\ m_connected' = w.m_connected
    /\ m_deviceName' = w.m_deviceName
    /\ m_availableDevices' = w.m_availableDevices
    /\ m_deviceIndices' = w.m_deviceIndices
    /\ sdl' = w.sdl
    /\ m_isConnected' = w.m_isConnected
    /\ m_webSocket' = w.m_webSocket
    /\ steerLog' = w.steerLog

SteerInitFrom(w) ==
    /\ m_joystick = w.m_joystick
    /\ m_pollTimer = w.m_pollTimer
    /\ m_steering = w.m_steering
    /\ m_throttle = w.m_throttle
    /\ m_connected = w.m_connected
    /\ m_deviceName = w.m_deviceName
    /\ m_availableDevices = w.m_availableDevices
    /\ m_deviceIndices = w.m_deviceIndices
    /\ sdl = w.sdl
    /\ m_isConnected = w.m_isConnected
    /\ m_webSocket = w.m_webSocket
    /\ steerLog = w.steerLog

\* What an observer of a call, a signal or a message sees of the state.
SteerSeen(w) ==
    [connected |-> w.m_connected, deviceName |-> w.m_deviceName,
     joystick |-> w.m_joystick, polling |-> w.m_pollTimer,
     steering |-> w.m_steering, throttle |-> w.m_throttle,
     open |-> DOMAIN w.sdl.open,
     isConnected |-> w.m_isConnected, socket |-> w.m_webSocket]

SteerEnter(w, handler, arg) ==
    [w EXCEPT !.steerLog = <<[kind |-> "enter", name |-> handler, arg |-> arg,
                              seen |-> SteerSeen(w)]>>]

SteerLogged(w, kind, name) ==
    [w EXCEPT !.steerLog = Append(@, [kind |-> kind, name |-> name, seen |-> SteerSeen(w)])]

\* ------------------------------------------------ SteeringControllerService
createDataPayload(w) ==
    [angle |-> w.m_steering, throttle |-> w.m_throttle, drive_mode |-> "user",
     recording |-> FALSE]

\* m_webSocket->sendTextMessage(jsonString)
sendTextMessage(w, payload) ==
    [w EXCEPT !.steerLog = Append(@, [kind |-> "send", name |-> "sendTextMessage",
                                      seen |-> SteerSeen(w), payload |-> payload])]

\* m_controller is the controller the service was constructed with.
sendSteeringData(w) ==
    IF ~w.m_isConnected THEN w ELSE sendTextMessage(w, createDataPayload(w))

\* A slot that sends whether or not the socket is connected
onSteeringDataChanged_unguarded(w) == sendTextMessage(w, createDataPayload(w))

onSteeringDataChanged(w) ==
    IF w.m_isConnected THEN sendSteeringData(w) ELSE w

\* The signals of the controller that the service connects to
\* onSteeringDataChanged (direct connections: the slot runs inside emit).
ForwardedSignals == {"steeringChanged", "throttleChanged", "connectedChanged"}

EmitSteering(w, signal) ==
    IF signal \in ForwardedSignals
    THEN onSteeringDataChanged(SteerLogged(w, "signal", signal))
    ELSE SteerLogged(w, "signal", signal)

\* QWebSocket::open starts a connection attempt.
connectToServer(w) ==
    IF w.m_isConnected
    THEN w
    ELSE SteerLogged([w EXCEPT !.m_webSocket = "connecting"], "call", "m_webSocket->open")

onDisconnected(w) ==
    SteerLogged([w EXCEPT !.m_isConnected = FALSE], "signal", "disconnected")

\* QWebSocket::close starts the closing handshake; disconnected() is emitted
\* inside close() when nothing is left to write, and later otherwise.
disconnect(w, immediate) ==
    IF ~w.m_isConnected
    THEN w
    ELSE IF immediate
         THEN onDisconnected(SteerLogged([w EXCEPT !.m_webSocket = "unconnected"],
                                         "call", "m_webSocket->close"))
         ELSE SteerLogged([w EXCEPT !.m_webSocket = "closing"], "call", "m_webSocket->close")

onConnected(w) ==
    sendSteeringData(SteerLogged([w EXCEPT !.m_isConnected = TRUE], "signal", "connected"))

onError(w) == SteerLogged(w, "signal", "errorOccurred")

\* ------------------------------------------------------- SteeringController
\* The devices SDL enumerates that have a name, by SDL index
ListedIndices(devices) ==
    SelectSeq([i \in 1..Len(devices) |-> i - 1], LAMBDA i : devices[i + 1].name # "")

updateDeviceList(w) ==
    LET indices == ListedIndices(w.sdl.devices)
    IN  SteerLogged([w EXCEPT !.m_availableDevices =
                                  [k \in 1..Len(indices) |-> w.sdl.devices[indices[k] + 1].name],
                              !.m_deviceIndices = indices],
                    "signal", "availableDevicesChanged")

refreshDevices(w) == updateDeviceList(w)

StopPolling(w) ==
    IF w.m_pollTimer
    THEN SteerLogged([w EXCEPT !.m_pollTimer = FALSE], "call", "m_pollTimer->stop")
    ELSE w

\* SDL_JoystickClose(m_joystick); m_joystick = nullptr
JoystickClosed(w) ==
    IF w.m_joystick # NULL
    THEN SteerLogged([w EXCEPT !.sdl.open = [h \in DOMAIN @ \ {w.m_joystick} |-> @[h]],
                               !.m_joystick = NULL],
                     "call", "SDL_JoystickClose")
    ELSE w

ResetValues(w) ==
    [w EXCEPT !.m_connected = FALSE, !.m_deviceName = "", !.m_steering = 0,
              !.m_throttle = 0]

\* A closeJoystick that leaves the poll timer running
closeJoystick_keepsPolling(w) ==
    EmitSteering(EmitSteering(EmitSteering(EmitSteering(
        ResetValues(JoystickClosed(w)),
        "connectedChanged"), "deviceNameChanged"), "steeringChanged"), "throttleChanged")

closeJoystick(w) ==
    EmitSteering(EmitSteering(EmitSteering(EmitSteering(
        ResetValues(JoystickClosed(StopPolling(w))),
        "connectedChanged"), "deviceNameChanged"), "steeringChanged"), "throttleChanged")

disconnectDevice(w) == closeJoystick(w)

\* ~SteeringController
cleanupSDL(w) == closeJoystick(w)

\* SDL_JoystickOpen(sdlIndex) succeeded: a new handle on the device (the call
\* is logged with the handles open when it is made)
JoystickOpened(w, sdlIndex) ==
    LET handle == AllocId(DOMAIN w.sdl.open, MaxHandles)
        device == w.sdl.devices[sdlIndex + 1]
    IN  [SteerLogged(w, "call", "SDL_JoystickOpen")
            EXCEPT !.sdl.open = [h \in DOMAIN @ \cup {handle} |->
                                    IF h = handle THEN device ELSE @[h]],
                   !.m_joystick = handle,
                   !.m_deviceName = device.name,
                   !.m_connected = TRUE]

StartPolling(w) ==
    SteerLogged([w EXCEPT !.m_pollTimer = TRUE], "call", "m_pollTimer->start")

\* An openJoystick that reports a device it failed to open as connected
openJoystick_connectedOnFailure(w, sdlIndex, opens) ==
    IF ~opens \/ sdlIndex >= Len(w.sdl.devices)
    THEN EmitSteering([SteerLogged(w, "call", "SDL_JoystickOpen:NULL")
                          EXCEPT !.m_joystick = NULL, !.m_connected = TRUE],
                      "connectedChanged")
    ELSE StartPolling(EmitSteering(EmitSteering(JoystickOpened(w, sdlIndex),
                                                "connectedChanged"), "deviceNameChanged"))

\* SDL_JoystickOpen fails when opens is false, and for an index SDL has no
\* device at.
openJoystick(w, sdlIndex, opens) ==
    IF ~opens \/ sdlIndex >= Len(w.sdl.devices)
    THEN EmitSteering([SteerLogged(w, "call", "SDL_JoystickOpen:NULL")
                          EXCEPT !.m_joystick = NULL, !.m_connected = FALSE],
                      "connectedChanged")
    ELSE StartPolling(EmitSteering(EmitSteering(JoystickOpened(w, sdlIndex),
                                                "connectedChanged"), "deviceNameChanged"))

\* A connectDevice that opens the new device over the one that is open
connectDevice_noClose(w, index, opens) ==
    IF index < 0 \/ index >= Len(w.m_deviceIndices)
    THEN w
    ELSE openJoystick(w, w.m_deviceIndices[index + 1], opens)

\* A connectDevice that disconnects before it checks the index
connectDevice_closesFirst(w, index, opens) ==
    IF index < 0 \/ index >= Len(w.m_deviceIndices)
    THEN closeJoystick(w)
    ELSE openJoystick(closeJoystick(w), w.m_deviceIndices[index + 1], opens)

connectDevice(w, index, opens) ==
    IF index < 0 \/ index >= Len(w.m_deviceIndices)
    THEN w
    ELSE openJoystick(closeJoystick(w), w.m_deviceIndices[index + 1], opens)

\* normalizeAxis, in units of 1 / (max - min)
normalizeAxis(value, min, max) ==
    LET clamped == IF value < min THEN min ELSE IF value > max THEN max ELSE value
    IN  2 * (clamped - min) - (max - min)

\* qAbs(difference) > 0.001, for a difference in units of 1 / unit
OverThreshold(difference, unit) ==
    1000 * (IF difference < 0 THEN -difference ELSE difference) > unit

SteeringRead(w, rawSteering) ==
    LET newSteering == normalizeAxis(rawSteering, AxisMin, AxisMax)
    IN  IF OverThreshold(newSteering - w.m_steering, AxisRange)
        THEN EmitSteering([w EXCEPT !.m_steering = newSteering], "steeringChanged")
        ELSE w

\* (1.0 - normalized) / 2.0, in units of 1 / (2 * AxisRange)
ThrottleRead(w, rawThrottle) ==
    LET newThrottle == AxisRange - normalizeAxis(rawThrottle, AxisMin, AxisMax)
    IN  IF OverThreshold(newThrottle - w.m_throttle, 2 * AxisRange)
        THEN EmitSteering([w EXCEPT !.m_throttle = newThrottle], "throttleChanged")
        ELSE w

AxesRead(w, numAxes, rawSteering, rawThrottle) ==
    LET steered == IF m_steeringAxis < numAxes THEN SteeringRead(w, rawSteering) ELSE w
    IN  IF m_throttleAxis < numAxes THEN ThrottleRead(steered, rawThrottle) ELSE steered

pollJoystick(w, rawSteering, rawThrottle) ==
    IF w.m_joystick = NULL
    THEN w
    ELSE AxesRead(w, w.sdl.open[w.m_joystick].axes, rawSteering, rawThrottle)

\* The controller as its constructor leaves it with the given joysticks
\* attached, and the service as its constructor leaves it.
SteerConstructed(devices) ==
    [updateDeviceList([m_joystick |-> NULL, m_pollTimer |-> FALSE, m_steering |-> 0,
                       m_throttle |-> 0, m_connected |-> FALSE, m_deviceName |-> "",
                       m_availableDevices |-> <<>>, m_deviceIndices |-> <<>>,
                       sdl |-> [devices |-> devices, open |-> <<>>],
                       m_isConnected |-> FALSE, m_webSocket |-> "unconnected",
                       steerLog |-> <<>>])
        EXCEPT !.steerLog = <<>>]

\* --------------------------------------------------------------- constructor
\* The constructor without the placeholder image: a null QImage in the slot
Constructed_noPlaceholder ==
    setStatus([m_pipeline |-> NULL, m_appsink |-> NULL, m_bus |-> NULL,
               m_currentImage |-> NullImage,
               m_frameId |-> "placeholder", m_status |-> "", m_frameCounter |-> 0,
               m_isStreaming |-> FALSE, m_hasActiveStream |-> FALSE,
               m_busTimer |-> NULL, m_frameTimeoutTimer |-> NULL,
               m_lastFrameTime |-> 0, gstHeap |-> <<>>, qtimers |-> <<>>,
               eventQueue |-> <<>>, now |-> ClockStart, trace |-> <<>>,
               lifecycle |-> "alive"],
              "Ready")

\* The receiver as the constructor leaves it (setStatus("Ready") is its last
\* statement that changes state).
Constructed ==
    setStatus([m_pipeline |-> NULL, m_appsink |-> NULL, m_bus |-> NULL,
               m_currentImage |-> FillImage(PlaceholderWidth, PlaceholderHeight, Black),
               m_frameId |-> "placeholder", m_status |-> "", m_frameCounter |-> 0,
               m_isStreaming |-> FALSE, m_hasActiveStream |-> FALSE,
               m_busTimer |-> NULL, m_frameTimeoutTimer |-> NULL,
               m_lastFrameTime |-> 0, gstHeap |-> <<>>, qtimers |-> <<>>,
               eventQueue |-> <<>>, now |-> ClockStart, trace |-> <<>>,
               lifecycle |-> "alive"],
              "Ready")

NoResult == [image |-> NullImage, size |-> <<-1, -1>>]
FetchIdle == [pc |-> "idle", id |-> "", raced |-> FALSE, before |-> NullImage,
              result |-> NoResult]

ReceiverInitFrom(w) ==
    /\ m_pipeline = w.m_pipeline
    /\ m_appsink = w.m_appsink
    /\ m_bus = w.m_bus
    /\ m_currentImage = w.m_currentImage
    /\ m_frameId = w.m_frameId
    /\ m_status = w.m_status
    /\ m_frameCounter = w.m_frameCounter
    /\ m_isStreaming = w.m_isStreaming
    /\ m_hasActiveStream = w.m_hasActiveStream
    /\ m_busTimer = w.m_busTimer
    /\ m_frameTimeoutTimer = w.m_frameTimeoutTimer
    /\ m_lastFrameTime = w.m_lastFrameTime
    /\ gstHeap = w.gstHeap
    /\ qtimers = w.qtimers
    /\ eventQueue = w.eventQueue
    /\ now = w.now
    /\ trace = w.trace
    /\ lifecycle = w.lifecycle
    /\ fetch = FetchIdle
    /\ handedOff = 0

\* The receiver as given, beside a controller without joysticks and a service
\* that is not connected.
InitFrom(w) == ReceiverInitFrom(w) /\ SteerInitFrom(SteerConstructed(<<>>))

Init == InitFrom(Constructed)

\* ------------------------------------------------------------------ actions
Alive == lifecycle = "alive"

\* A hand-off applied while the image-loading thread is inside requestImage
\* writes m_currentImage under the reader.
FetchAfterWrite == IF fetch.pc = "reading" THEN [fetch EXCEPT !.raced = TRUE] ELSE fetch

\* Q_INVOKABLE startStream(port), called in the consumer context
StartStream(port, build, detail, play) ==
    /\ Alive
    /\ UNCHANGED steerVars
    /\ LET w0 == IF m_pipeline # NULL THEN stopStream(World) ELSE World
       IN  /\ FreeIds(DOMAIN w0.gstHeap, MaxPipelines) # {}
           /\ Cardinality(FreeIds(DOMAIN w0.qtimers, MaxTimers)) >= 2
    /\ Commit(startStream(Enter(World, "startStream", ToString(port)), port, build, detail, play))
    /\ UNCHANGED <<fetch, handedOff>>

\* Q_INVOKABLE stopStream(), called in the consumer context
StopStream ==
    /\ Alive
    /\ UNCHANGED steerVars
    /\ Commit(stopStream(Enter(World, "stopStream", "")))
    /\ UNCHANGED <<fetch, handedOff>>

\* ~VideoStreamReceiver: stopStream(), then QObject deletes the child timers
\* and removes the events posted to the object.
Destructor ==
    /\ Alive
    /\ UNCHANGED steerVars
    /\ Commit([stopStream(Enter(World, "~VideoStreamReceiver", "")) EXCEPT !.qtimers = <<>>, !.eventQueue = <<>>,
                                        !.lifecycle = "destroyed"])
    /\ UNCHANGED <<fetch, handedOff>>

\* A callback that stores the converted frame from the streaming thread
PullSample_writesSlot(sample, log) ==
    /\ Alive
    /\ UNCHANGED steerVars
    /\ \E pid \in DOMAIN gstHeap : gstHeap[pid].state = "PLAYING" /\ gstHeap[pid].callbacks
    /\ handedOff < MaxFrames
    /\ Len(eventQueue) < MaxQueue
    /\ IF sample.kind = "ok"
       THEN /\ eventQueue' = Append(eventQueue, processNewSample(sample))
            /\ m_currentImage' = processNewSample(sample)
            /\ handedOff' = handedOff + 1
       ELSE UNCHANGED <<eventQueue, handedOff, m_currentImage>>
    /\ UNCHANGED <<m_pipeline, m_appsink, m_bus, m_frameId, m_status,
                   m_frameCounter, m_isStreaming, m_hasActiveStream, m_busTimer,
                   m_frameTimeoutTimer, m_lastFrameTime, gstHeap, qtimers, now,
                   fetch, lifecycle>>
    /\ trace' = log

\* A callback that posts an empty frame for a sample it cannot convert
PullSample_postsEmptyFrame(sample, log) ==
    /\ Alive
    /\ UNCHANGED steerVars
    /\ \E pid \in DOMAIN gstHeap : gstHeap[pid].state = "PLAYING" /\ gstHeap[pid].callbacks
    /\ handedOff < MaxFrames
    /\ Len(eventQueue) < MaxQueue
    /\ eventQueue' = Append(eventQueue, IF sample.kind = "ok" THEN processNewSample(sample)
                                                               ELSE NullImage)
    /\ handedOff' = handedOff + 1
    /\ UNCHANGED <<m_pipeline, m_appsink, m_bus, m_currentImage, m_frameId, m_status,
                   m_frameCounter, m_isStreaming, m_hasActiveStream, m_busTimer,
                   m_frameTimeoutTimer, m_lastFrameTime, gstHeap, qtimers, now,
                   fetch, lifecycle>>
    /\ trace' = log

\* onNewSample on the streaming thread of a playing pipeline: a sample that
\* passes the checks is converted and the lambda is posted; any other sample is
\* dropped.
PullSample(sample, log) ==
    /\ Alive
    /\ UNCHANGED steerVars
    /\ \E pid \in DOMAIN gstHeap : gstHeap[pid].state = "PLAYING" /\ gstHeap[pid].callbacks
    /\ handedOff < MaxFrames
    /\ Len(eventQueue) < MaxQueue
    /\ IF sample.kind = "ok"
       THEN /\ eventQueue' = Append(eventQueue, processNewSample(sample))
            /\ handedOff' = handedOff + 1
       ELSE UNCHANGED <<eventQueue, handedOff>>
    /\ UNCHANGED <<m_pipeline, m_appsink, m_bus, m_currentImage, m_frameId, m_status,
                   m_frameCounter, m_isStreaming, m_hasActiveStream, m_busTimer,
                   m_frameTimeoutTimer, m_lastFrameTime, gstHeap, qtimers, now,
                   fetch, lifecycle>>
    /\ trace' = log

OnNewSample(sample) == PullSample(sample, <<>>)

\* The same callback with the pulled sample kept in the log of the step.
OnNewSampleLogged(sample) ==
    PullSample(sample, Enter(World, "onNewSample", sample).trace)

\* An event loop that runs the newest posted lambda first
HandOff_newestFirst ==
    /\ Alive
    /\ UNCHANGED steerVars
    /\ eventQueue # <<>>
    /\ \E inc \in IncrementOutcomes(m_frameCounter) :
          Commit(handOffLambda(Enter([World EXCEPT !.eventQueue = SubSeq(@, 1, Len(@) - 1)],
                                     "lambda", ""),
                               eventQueue[Len(eventQueue)], inc))
    /\ fetch' = FetchAfterWrite
    /\ UNCHANGED handedOff

\* An event loop that keeps only the newest posted lambda
HandOff_latestOnly ==
    /\ Alive
    /\ UNCHANGED steerVars
    /\ eventQueue # <<>>
    /\ \E inc \in IncrementOutcomes(m_frameCounter) :
          Commit(handOffLambda(Enter([World EXCEPT !.eventQueue = <<>>], "lambda", ""),
                               eventQueue[Len(eventQueue)], inc))
    /\ fetch' = FetchAfterWrite
    /\ UNCHANGED handedOff

\* The event loop runs the oldest posted lambda in the consumer context.
HandOff ==
    /\ Alive
    /\ UNCHANGED steerVars
    /\ eventQueue # <<>>
    /\ \E inc \in IncrementOutcomes(m_frameCounter) :
          Commit(handOffLambda(Enter([World EXCEPT !.eventQueue = Tail(@)], "lambda", ""),
                               Head(eventQueue), inc))
    /\ fetch' = FetchAfterWrite
    /\ UNCHANGED handedOff

\* The pipeline posts a message on its bus.
PostBusMessage(message, limit) ==
    /\ Alive
    /\ UNCHANGED steerVars
    /\ \E pid \in DOMAIN gstHeap :
          /\ gstHeap[pid].state = "PLAYING"
          /\ Len(gstHeap[pid].bus) < limit
          /\ gstHeap' = [gstHeap EXCEPT ![pid].bus = Append(@, message)]
    /\ UNCHANGED <<m_pipeline, m_appsink, m_bus, m_currentImage, m_frameId, m_status,
                   m_frameCounter, m_isStreaming, m_hasActiveStream, m_busTimer,
                   m_frameTimeoutTimer, m_lastFrameTime, qtimers, eventQueue, now,
                   fetch, lifecycle, handedOff>>
    /\ trace' = <<>>

TimerRuns(kind) ==
    \E t \in DOMAIN qtimers :
        qtimers[t].kind = kind /\ qtimers[t].active /\ qtimers[t].connected

\* timeout of the bus timer: the slot checkBusMessages
BusTimerTick ==
    /\ Alive
    /\ UNCHANGED steerVars
    /\ TimerRuns("bus")
    /\ Commit(checkBusMessages(Enter(World, "checkBusMessages", "")))
    /\ UNCHANGED <<fetch, handedOff>>

\* timeout of the frame timeout timer: the slot checkFrameTimeout
FrameTimerTick ==
    /\ Alive
    /\ UNCHANGED steerVars
    /\ TimerRuns("frame")
    /\ Commit(checkFrameTimeout(Enter(World, "checkFrameTimeout", "")))
    /\ UNCHANGED <<fetch, handedOff>>

\* Time passes.
ClockTick ==
    /\ Alive
    /\ UNCHANGED steerVars
    /\ now < ClockEnd
    /\ now' = now + ClockStepMs
    /\ UNCHANGED <<m_pipeline, m_appsink, m_bus, m_currentImage, m_frameId, m_status,
                   m_frameCounter, m_isStreaming, m_hasActiveStream, m_busTimer,
                   m_frameTimeoutTimer, m_lastFrameTime, gstHeap, qtimers, eventQueue,
                   fetch, lifecycle, handedOff>>
    /\ trace' = <<>>

\* The QML Image (asynchronous: true) asks the provider on the image-loading
\* thread: the request enters requestImage ...
RequestImageBegin(id) ==
    /\ Alive
    /\ UNCHANGED steerVars
    /\ fetch.pc # "reading"
    /\ fetch' = [pc |-> "reading", id |-> id, raced |-> FALSE, before |-> m_currentImage,
                 result |-> NoResult]
    /\ UNCHANGED <<m_pipeline, m_appsink, m_bus, m_currentImage, m_frameId, m_status,
                   m_frameCounter, m_isStreaming, m_hasActiveStream, m_busTimer,
                   m_frameTimeoutTimer, m_lastFrameTime, gstHeap, qtimers, eventQueue,
                   now, lifecycle, handedOff>>
    /\ trace' = <<>>

\* ... and returns.  A read of m_currentImage that a hand-off wrote under is a
\* data race: it yields the image before, the image after, or a torn one.
RequestImageReturn ==
    /\ Alive
    /\ UNCHANGED steerVars
    /\ fetch.pc = "reading"
    /\ \E got \in IF fetch.raced THEN {fetch.before, m_currentImage, TornImage}
                                 ELSE {m_currentImage} :
          fetch' = [fetch EXCEPT !.pc = "done", !.before = NullImage,
                                 !.result = requestImage(got, fetch.id)]
    /\ UNCHANGED <<m_pipeline, m_appsink, m_bus, m_currentImage, m_frameId, m_status,
                   m_frameCounter, m_isStreaming, m_hasActiveStream, m_busTimer,
                   m_frameTimeoutTimer, m_lastFrameTime, gstHeap, qtimers, eventQueue,
                   now, lifecycle, handedOff>>
    /\ trace' = <<>>

\* The receiver, the pipeline and the clock.
Next ==
    \/ \E port \in Ports, outcome \in StartOutcomes, detail \in ErrorDetails :
          StartStream(port, outcome[1], detail, outcome[2])
    \/ StopStream
    \/ Destructor
    \/ \E sample \in Samples : OnNewSample(sample)
    \/ HandOff
    \/ \E message \in BusMessages : PostBusMessage(message, MaxBus)
    \/ BusTimerTick
    \/ FrameTimerTick
    \/ ClockTick

Spec == Init /\ [][Next]_vars

\* The receiver and the image provider: the operations that reach the frame
\* slot, with the requests of the image-loading thread.
FetchNext ==
    \/ \E port \in Ports, outcome \in StartOutcomes, detail \in ErrorDetails :
          StartStream(port, outcome[1], detail, outcome[2])
    \/ StopStream
    \/ Destructor
    \/ \E sample \in Samples : OnNewSample(sample)
    \/ HandOff
    \/ \E id \in RequestIds : RequestImageBegin(id)
    \/ RequestImageReturn

SpecFetch == Init /\ [][FetchNext]_vars

\* The receiver and the bus of its pipeline: the clock stands still, the bus
\* holds more than one message.
BusNext ==
    \/ \E port \in Ports, outcome \in StartOutcomes, detail \in ErrorDetails :
          StartStream(port, outcome[1], detail, outcome[2])
    \/ StopStream
    \/ Destructor
    \/ \E sample \in Samples : OnNewSample(sample)
    \/ HandOff
    \/ \E message \in BusMessages : PostBusMessage(message, MaxBusDrain)
    \/ BusTimerTick

SpecBus == Init /\ [][BusNext]_vars

\* The receiver, the frames and the clock, with an event loop that keeps
\* running: a timer that is due fires, and time passes.
FairNext ==
    \/ \E port \in Ports, outcome \in StartOutcomes, detail \in ErrorDetails :
          StartStream(port, outcome[1], detail, outcome[2])
    \/ StopStream
    \/ Destructor
    \/ \E sample \in Samples : OnNewSample(sample)
    \/ HandOff
    \/ FrameTimerTick
    \/ ClockTick

SpecFair == Init /\ [][FairNext]_vars /\ WF_vars(FrameTimerTick) /\ WF_vars(ClockTick)

\* The receiver fed with the test frames.
MirrorNext ==
    \/ \E port \in Ports, detail \in ErrorDetails : StartStream(port, "ok", detail, "success")
    \/ StopStream
    \/ \E sample \in TestSamples \cup {BadSample(kind) : kind \in BadKinds} :
          OnNewSampleLogged(sample)
    \/ HandOff

SpecMirror == Init /\ [][MirrorNext]_vars

\* The receiver, the frames and an event loop that keeps running: a lambda
\* that is posted is run.
HandOffNext ==
    \/ \E port \in Ports, outcome \in StartOutcomes, detail \in ErrorDetails :
          StartStream(port, outcome[1], detail, outcome[2])
    \/ StopStream
    \/ Destructor
    \/ \E sample \in Samples : OnNewSample(sample)
    \/ HandOff

\* HandOff is enabled when a lambda waits on a receiver that exists, and the
\* steps of HandOff are the steps in which a lambda runs: weak fairness of
\* HandOff, written out.
HandOffEnabled == Alive /\ eventQueue # <<>>
HandOffTaken ==
    /\ eventQueue' = Tail(eventQueue)
    /\ trace' # <<>> /\ trace'[1].kind = "enter" /\ trace'[1].name = "lambda"
EventLoopRuns == []<>(~HandOffEnabled) \/ []<><<HandOffTaken>>_vars

SpecHandOff == Init /\ [][HandOffNext]_vars /\ EventLoopRuns

\* ---------------------------------------- the controller and the service
receiverVars == <<m_pipeline, m_appsink, m_bus, m_currentImage, m_frameId, m_status,
                  m_frameCounter, m_isStreaming, m_hasActiveStream, m_busTimer,
                  m_frameTimeoutTimer, m_lastFrameTime, gstHeap, qtimers, eventQueue,
                  now, trace, fetch, lifecycle, handedOff>>

DeviceIndexes == -1..2

\* Q_INVOKABLE connectDevice(index)
ConnectDevice(index, opens) ==
    /\ Cardinality(DOMAIN sdl.open) < MaxHandles
    /\ SteerCommit(connectDevice(SteerEnter(SteerWorld, "connectDevice", ToString(index)),
                                 index, opens))
    /\ UNCHANGED receiverVars

\* Q_INVOKABLE disconnectDevice()
DisconnectDevice ==
    /\ SteerCommit(disconnectDevice(SteerEnter(SteerWorld, "disconnectDevice", "")))
    /\ UNCHANGED receiverVars

\* Q_INVOKABLE refreshDevices()
RefreshDevices ==
    /\ SteerCommit(refreshDevices(SteerEnter(SteerWorld, "refreshDevices", "")))
    /\ UNCHANGED receiverVars

\* timeout of the poll timer: the slot pollJoystick
PollTimerTick(rawSteering, rawThrottle) ==
    /\ m_pollTimer
    /\ SteerCommit(pollJoystick(SteerEnter(SteerWorld, "pollJoystick", ""),
                                rawSteering, rawThrottle))
    /\ UNCHANGED receiverVars

\* A joystick is plugged in or pulled out; a handle that is open stays open.
Replug(devices) ==
    /\ devices # sdl.devices
    /\ sdl' = [sdl EXCEPT !.devices = devices]
    /\ steerLog' = <<>>
    /\ UNCHANGED <<m_joystick, m_pollTimer, m_steering, m_throttle, m_connected,
                   m_deviceName, m_availableDevices, m_deviceIndices, m_isConnected,
                   m_webSocket>>
    /\ UNCHANGED receiverVars

\* connectToServer(url)
ConnectToServer ==
    /\ SteerCommit(connectToServer(SteerEnter(SteerWorld, "connectToServer", "")))
    /\ UNCHANGED receiverVars

\* SteeringControllerService::disconnect()
ServiceDisconnect(immediate) ==
    /\ SteerCommit(disconnect(SteerEnter(SteerWorld, "disconnect", ""), immediate))
    /\ UNCHANGED receiverVars

\* QWebSocket::connected: the slot onConnected
SocketConnected ==
    /\ m_webSocket = "connecting"
    /\ SteerCommit(onConnected(SteerEnter([SteerWorld EXCEPT !.m_webSocket = "connected"],
                                          "onConnected", "")))
    /\ UNCHANGED receiverVars

\* QWebSocket::disconnected: the slot onDisconnected
SocketDisconnected ==
    /\ m_webSocket \in {"connected", "closing"}
    /\ SteerCommit(onDisconnected(SteerEnter([SteerWorld EXCEPT !.m_webSocket = "unconnected"],
                                             "onDisconnected", "")))
    /\ UNCHANGED receiverVars

\* QWebSocket::errorOccurred while connecting: the slot onError
SocketError ==
    /\ m_webSocket = "connecting"
    /\ SteerCommit(onError(SteerEnter([SteerWorld EXCEPT !.m_webSocket = "unconnected"],
                                      "onError", "")))
    /\ UNCHANGED receiverVars

\* The controller, the joysticks, the service and its socket.
SteerNext ==
    \/ \E index \in DeviceIndexes, opens \in BOOLEAN : ConnectDevice(index, opens)
    \/ DisconnectDevice
    \/ RefreshDevices
    \/ \E rawSteering \in RawAxis, rawThrottle \in RawAxis :
          PollTimerTick(rawSteering, rawThrottle)
    \/ \E devices \in DeviceLists : Replug(devices)
    \/ ConnectToServer
    \/ \E immediate \in BOOLEAN : ServiceDisconnect(immediate)
    \/ SocketConnected
    \/ SocketDisconnected
    \/ SocketError

SteerInit ==
    /\ ReceiverInitFrom(Constructed)
    /\ \E devices \in DeviceLists : SteerInitFrom(SteerConstructed(devices))

SpecSteer == SteerInit /\ [][SteerNext]_vars

\* The receiver late in a long run: a state the program is in after
\* INT_MAX - 1 frames and a stopStream().
LongRun ==
    [Constructed EXCEPT
        !.m_currentImage = processNewSample(CHOOSE sample \in OkSamples : sample.height = 1),
        !.m_frameCounter = INT_MAX - 1,
        !.m_frameId = FrameIdOf(INT_MAX - 1),
        !.m_lastFrameTime = ClockStart,
        !.m_status = "Stopped",
        !.trace = <<>>]

SpecLongRun == InitFrom(LongRun) /\ [][Next]_vars

TypeOK ==
    /\ m_pipeline \in {NULL} \cup DOMAIN gstHeap
    /\ m_isStreaming \in BOOLEAN
    /\ m_hasActiveStream \in BOOLEAN
    /\ Len(eventQueue) <= MaxQueue
    /\ now \in ClockStart..ClockEnd

\* =================================================================== claims
\* What the trace of the step taken last says about it.
Ran(handler) ==
    trace # <<>> /\ trace[1].kind = "enter" /\ trace[1].name = handler

Called(name, result) ==
    \E i \in 1..Len(trace) :
        trace[i].kind = "call" /\ trace[i].name = name /\ trace[i].arg = result

\* startStream(port) ran and both the construction and the state change succeeded
StartSucceeded(port) ==
    /\ Ran("startStream")
    /\ trace[1].arg = ToString(port)
    /\ Called("set_state(PLAYING)", "success")

LivePipelines == {p \in DOMAIN gstHeap : gstHeap[p].state = "PLAYING"}
LivePorts == {gstHeap[p].port : p \in LivePipelines}

\* The references to pipeline p that the receiver's members account for.
HeldRefs(p) ==
    (IF m_pipeline = p THEN {"graph"} ELSE {})
        \cup (IF m_appsink = p THEN {"sink"} ELSE {})
        \cup (IF m_bus = p THEN {"bus"} ELSE {})

RunningTimers(kind) ==
    {t \in DOMAIN qtimers : qtimers[t].kind = kind /\ qtimers[t].active}

\* ----------------------------------------------------------------------- C1
\* C1: in every reachable state hasActiveStream is true only if isStreaming
\* is true.  (Stated as claimed; the late hand-off breaks it.)
C1_ActiveOnlyIfStreaming ==
    m_hasActiveStream => m_isStreaming

\* a hand-off posted before stopStream was applied after it: the receiver has
\* no pipeline and does not stream, and reports an active stream
C1_StaleHandOff ==
    /\ Ran("lambda")
    /\ ~trace[1].seen.isStreaming
    /\ trace[1].seen.pipeline = NULL
    /\ trace[1].seen.status = "Stopped"
    /\ m_hasActiveStream
    /\ ~m_isStreaming
    /\ m_status = "Streaming (receiving frames)"

\* ----------------------------------------------------------------------- C2
\* C2: after any sequence of startStream/stopStream calls at most one pipeline
\* is live; no pipeline object exists besides the installed one and each of its
\* references is held by a member; the only timers that exist are the two the
\* members point to, at most one running per kind; and the live pipeline is
\* the one built for the port of the most recent successful startStream: a
\* port becomes live only by a successful startStream(port), which leaves
\* exactly that port live.
C2_State ==
    /\ Cardinality(LivePipelines) <= 1
    /\ \A p \in DOMAIN gstHeap : p = m_pipeline /\ gstHeap[p].refs = HeldRefs(p)
    /\ DOMAIN qtimers = {m_busTimer, m_frameTimeoutTimer} \ {NULL}
    /\ Cardinality(RunningTimers("bus")) <= 1
    /\ Cardinality(RunningTimers("frame")) <= 1
    /\ \A port \in Ports : StartSucceeded(port) => LivePorts = {port}

C2_Step ==
    \/ LivePorts' \subseteq LivePorts
    \/ \E port \in Ports : StartSucceeded(port)' /\ LivePorts' = {port}

C2_SinglePipeline == [](C2_State) /\ [][C2_Step]_vars

\* startStream(5001) has just succeeded on a receiver that was streaming on 5000
C2_Witness ==
    /\ StartSucceeded(5001)
    /\ trace[1].seen.isStreaming
    /\ trace[1].seen.port = 5000
    /\ LivePorts = {5001}
    /\ Cardinality(DOMAIN gstHeap) = 1
    /\ Cardinality(DOMAIN qtimers) = 2

\* ----------------------------------------------------------------------- C3
\* C3: stopStream called when no pipeline exists changes nothing (status,
\* isStreaming, hasActiveStream, frame slot, frame identifier, timers, nor
\* anything else) and emits no notification, however often it is called.
C3_StopWithoutPipelineIsNoOp ==
    [][(Ran("stopStream")' /\ m_pipeline = NULL) =>
          /\ UNCHANGED <<m_pipeline, m_appsink, m_bus, m_currentImage, m_frameId,
                         m_status, m_frameCounter, m_isStreaming, m_hasActiveStream,
                         m_busTimer, m_frameTimeoutTimer, m_lastFrameTime, gstHeap,
                         qtimers, eventQueue, now, fetch, lifecycle, handedOff>>
          /\ Len(trace') = 1]_vars

\* stopStream has just run without a pipeline on a receiver whose last
\* startStream failed: the error status is still there
C3_Witness ==
    /\ Ran("stopStream")
    /\ trace[1].seen.pipeline = NULL
    /\ Len(trace) = 1
    /\ m_status = "Error: no element \"rtpjpegdepay\""
    /\ m_frameCounter = 1

\* ----------------------------------------------------------------------- C4
\* C4: each applied frame hand-off increases the frame counter by exactly one
\* and gives currentFrame a new value made from it; every other operation
\* (stopStream, startStream, timeout ticks, bus ticks, dropped frames) leaves
\* both unchanged.  (Stated as claimed; the hand-off at INT_MAX breaks it.)
C4_FrameIdentifier ==
    [][IF Ran("lambda")'
       THEN /\ m_frameCounter' > m_frameCounter
            /\ m_frameCounter' - m_frameCounter = 1
            /\ m_frameId' = FrameIdOf(m_frameCounter')
            /\ m_frameId' # m_frameId
       ELSE UNCHANGED <<m_frameCounter, m_frameId>>]_vars

\* the hand-off applied at INT_MAX has wrapped the counter
C4_Wrapped ==
    /\ Ran("lambda")
    /\ trace[1].seen.frameId = FrameIdOf(INT_MAX)
    /\ m_frameCounter = INT_MIN
    /\ m_frameId = FrameIdOf(INT_MIN)

\* ----------------------------------------------------------------------- C5
\* C5: an applied hand-off makes the handed-off image the current one and
\* emits exactly one frameChanged, at which the image and the new identifier
\* are already in place; the slot changes in no other way; and every fetch
\* returns the image the slot holds at its return, with its dimensions,
\* whatever identifier it was given.  (Stated as claimed; a fetch on the
\* image-loading thread that overlaps a hand-off breaks it.)
C5_HandOff ==
    Ran("lambda")' =>
        /\ m_currentImage' = Head(eventQueue)
        /\ Len(SignalsNamed(trace', "frameChanged")) = 1
        /\ \A i \in 1..Len(trace') :
               (trace'[i].kind = "signal" /\ trace'[i].name = "frameChanged") =>
                   /\ trace'[i].seen.image = Head(eventQueue)
                   /\ trace'[i].seen.frameId = m_frameId'
                   /\ trace'[i].seen.frameId # m_frameId

C5_Fetch ==
    (fetch.pc = "reading" /\ fetch'.pc = "done") =>
        /\ fetch'.result.image = m_currentImage
        /\ fetch'.result.size = <<m_currentImage.width, m_currentImage.height>>

C5_FetchReturnsLatestFrame ==
    [][/\ C5_HandOff
       /\ C5_Fetch
       /\ (m_currentImage' # m_currentImage => Ran("lambda")')]_vars

\* a fetch that a hand-off overlapped has returned an image that is neither
\* the frame before nor the frame after
C5_TornFetch ==
    /\ fetch.pc = "done"
    /\ fetch.raced
    /\ fetch.result.image = TornImage
    /\ fetch.result.image # m_currentImage
    /\ m_frameCounter >= 1

\* ----------------------------------------------------------------------- C6
\* C6: a timeout tick that finds the receiver streaming with an active stream
\* whose last applied hand-off is more than 3000 ms old sets hasActiveStream
\* to false and the status to "No video stream (timeout)", leaves isStreaming
\* and the pipeline, sink, bus and timers as they are and emits no
\* errorOccurred; and, the timer firing and time passing, a streaming receiver
\* with an active stream either has another frame applied or loses
\* hasActiveStream.
C6_TimeoutTick ==
    (/\ Ran("checkFrameTimeout")'
     /\ m_isStreaming /\ m_hasActiveStream
     /\ now - m_lastFrameTime > FrameTimeoutMs) =>
        /\ ~m_hasActiveStream'
        /\ m_status' = "No video stream (timeout)"
        /\ UNCHANGED <<m_isStreaming, m_pipeline, m_appsink, m_bus, m_busTimer,
                       m_frameTimeoutTimer, gstHeap, qtimers>>
        /\ SignalsNamed(trace', "errorOccurred") = <<>>

\* the clock of the model can still pass the threshold of the last frame
C6_ClockRoom == m_lastFrameTime + FrameTimeoutMs < ClockEnd

C6_Timeout ==
    /\ [][C6_TimeoutTick]_vars
    /\ \A n \in 1..MaxFrames :
          (m_isStreaming /\ m_hasActiveStream /\ m_frameCounter = n /\ C6_ClockRoom)
              ~> (~m_hasActiveStream \/ m_frameCounter # n)

\* the tick has just declared the timeout on a receiver that stays streaming
C6_Witness ==
    /\ Ran("checkFrameTimeout")
    /\ trace[1].seen.hasActiveStream
    /\ now - m_lastFrameTime > FrameTimeoutMs
    /\ ~m_hasActiveStream
    /\ m_isStreaming
    /\ m_pipeline # NULL
    /\ m_status = "No video stream (timeout)"

\* ----------------------------------------------------------------------- C7
\* C7: as long as no hand-off has been applied the slot holds the 640x480
\* black placeholder, and a fetch returns it with the size 640x480, never a
\* null image, whatever startStream/stopStream calls came before and whatever
\* identifier is asked for.
C7_PlaceholderBeforeFirstFrame ==
    (Alive /\ handedOff = Len(eventQueue)) =>
        /\ \A id \in RequestIds :
               requestImage(m_currentImage, id) =
                   [image |-> FillImage(PlaceholderWidth, PlaceholderHeight, Black),
                    size |-> <<PlaceholderWidth, PlaceholderHeight>>]
        /\ m_currentImage # NullImage
        /\ fetch.pc = "done" =>
               /\ fetch.result.image = FillImage(PlaceholderWidth, PlaceholderHeight, Black)
               /\ fetch.result.size = <<PlaceholderWidth, PlaceholderHeight>>

\* a fetch after a start and a stop that delivered no frame
C7_Witness ==
    /\ Alive
    /\ handedOff = 0
    /\ m_status = "Stopped"
    /\ fetch.pc = "done"
    /\ fetch.result.size = <<PlaceholderWidth, PlaceholderHeight>>
    /\ fetch.result.image.solid
    /\ fetch.result.image.color = Black

\* ----------------------------------------------------------------------- C8
\* C8: a poll tick emits exactly one errorOccurred for each error message on
\* the bus, carrying the message, with the status "Error: <message>" in place
\* when it is emitted; and the state the tick leaves is one from which
\* stopStream() followed by a startStream(port) that the library carries out
\* ends streaming on that port with one live pipeline.
PendingBus == IF m_bus \in DOMAIN gstHeap THEN gstHeap[m_bus].bus ELSE <<>>

C8_ErrorTick ==
    Ran("checkBusMessages")' =>
        LET errors   == SelectSeq(PendingBus, LAMBDA message : message.type = "ERROR")
            reported == SignalsNamed(trace', "errorOccurred")
        IN  /\ Len(reported) = Len(errors)
            /\ \A i \in 1..Len(errors) :
                   /\ reported[i].arg = "GStreamer error: " \o errors[i].text
                   /\ reported[i].seen.status = "Error: " \o errors[i].text

BusErrorReported ==
    Ran("checkBusMessages") /\ SignalsNamed(trace, "errorOccurred") # <<>>

C8_Recoverable ==
    BusErrorReported =>
        \A port \in Ports, detail \in ErrorDetails :
            LET w == startStream(stopStream(World), port, "ok", detail, "success")
            IN  /\ w.m_isStreaming
                /\ ~w.m_hasActiveStream
                /\ w.m_status = StatusStreamingOnPort(port)
                /\ w.m_pipeline # NULL
                /\ DOMAIN w.gstHeap = {w.m_pipeline}
                /\ w.gstHeap[w.m_pipeline].state = "PLAYING"
                /\ w.gstHeap[w.m_pipeline].port = port

C8_BusError == [](C8_Recoverable) /\ [][C8_ErrorTick]_vars

\* the tick has just reported the one error of the bus; the status shows it
C8_Witness ==
    /\ BusErrorReported
    /\ Len(SignalsNamed(trace, "errorOccurred")) = 1
    /\ m_status = "Error: Internal data stream error."
    /\ m_isStreaming

\* ----------------------------------------------------------------------- C9
\* C9: a startStream(port) whose pipeline is built and set to PLAYING returns
\* with isStreaming true, hasActiveStream false and the status
\* "Streaming on port <port>", whatever the state it was called in.
C9_StartPostState ==
    \A port \in Ports :
        StartSucceeded(port) =>
            /\ m_isStreaming
            /\ ~m_hasActiveStream
            /\ m_status = StatusStreamingOnPort(port)

\* startStream(5001) has just succeeded on a receiver that had an active
\* stream on another port
C9_Witness ==
    /\ StartSucceeded(5001)
    /\ trace[1].seen.isStreaming
    /\ trace[1].seen.hasActiveStream
    /\ trace[1].seen.port = 5000
    /\ m_status = "Streaming on port 5001"
    /\ m_isStreaming
    /\ ~m_hasActiveStream

\* ---------------------------------------------------------------------- C10
\* C10: stopStream called with a pipeline installed returns with isStreaming
\* false, hasActiveStream false, the status "Stopped" and the pipeline, sink,
\* bus and both timers cleared, whether it is called directly, by the
\* destructor, or by a startStream that fails to start the pipeline; and
\* the same is what stopStream makes of every state with a pipeline.
Stopped(w) ==
    /\ ~w.m_isStreaming
    /\ ~w.m_hasActiveStream
    /\ w.m_status = "Stopped"
    /\ w.m_pipeline = NULL
    /\ w.m_appsink = NULL
    /\ w.m_bus = NULL
    /\ w.m_busTimer = NULL
    /\ w.m_frameTimeoutTimer = NULL
    /\ w.gstHeap = <<>>
    /\ w.qtimers = <<>>

C10_StopPostState ==
    /\ ((Ran("stopStream") \/ Ran("~VideoStreamReceiver")) /\ trace[1].seen.pipeline # NULL)
           => Stopped(World)
    /\ (Ran("startStream") /\ Called("set_state(PLAYING)", "failure")) => Stopped(World)
    /\ (Alive /\ m_pipeline # NULL) => Stopped(stopStream(World))

\* the destructor has just torn down a stream that was receiving frames
C10_Witness ==
    /\ Ran("~VideoStreamReceiver")
    /\ trace[1].seen.isStreaming
    /\ trace[1].seen.hasActiveStream
    /\ trace[1].seen.pipeline # NULL
    /\ lifecycle = "destroyed"
    /\ m_status = "Stopped"
    /\ m_pipeline = NULL

\* ---------------------------------------------------------------------- C11
\* C11: only the application of a frame hand-off changes the frame slot:
\* startStream (successful or failed), stopStream, the destructor, the bus
\* tick and the timeout tick return with the image they found, which a fetch
\* then returns; and once the slot holds a real frame it holds a real frame
\* ever after, never the placeholder or a null image again.
RealFrames == {processNewSample(sample) : sample \in OkSamples}

C11_OtherHandlers ==
    (\E handler \in {"startStream", "stopStream", "~VideoStreamReceiver",
                     "checkBusMessages", "checkFrameTimeout"} : Ran(handler)) =>
        /\ m_currentImage = trace[1].seen.image
        /\ \A id \in RequestIds :
               requestImage(m_currentImage, id).image = trace[1].seen.image

C11_Step ==
    /\ m_currentImage' # m_currentImage => Ran("lambda")'
    /\ m_currentImage \in RealFrames => m_currentImage' \in RealFrames

C11_OnlyHandOffWritesSlot == [](C11_OtherHandlers) /\ [][C11_Step]_vars

\* a frame was applied, the stream was stopped and then started again with
\* success: the frame is still in the slot
C11_Witness ==
    /\ Ran("startStream")
    /\ Called("set_state(PLAYING)", "success")
    /\ trace[1].seen.status = "Stopped"
    /\ trace[1].seen.image \in RealFrames
    /\ m_currentImage = trace[1].seen.image
    /\ m_frameCounter >= 1

\* ---------------------------------------------------------------------- C12
\* C12: a startStream whose pipeline construction fails (gst_parse_launch
\* reports an error, or the sink is not found) returns with no pipeline,
\* sink, bus or timer installed, with isStreaming false and with a status
\* "Error: <detail>".  (Stated as claimed; a parse error that comes with a
\* pipeline breaks it.)
ConstructionFailed ==
    /\ Ran("startStream")
    /\ \/ Called("gst_parse_launch", "error_null")
       \/ Called("gst_parse_launch", "error_partial")
       \/ Called("gst_bin_get_by_name", "null")

ErrorStatuses ==
    {"Error: " \o detail : detail \in ErrorDetails} \cup {"Error: Failed to initialize"}

C12_NothingInstalledAfterFailedConstruction ==
    ConstructionFailed =>
        /\ m_pipeline = NULL
        /\ m_appsink = NULL
        /\ m_bus = NULL
        /\ m_busTimer = NULL
        /\ m_frameTimeoutTimer = NULL
        /\ gstHeap = <<>>
        /\ qtimers = <<>>
        /\ ~m_isStreaming
        /\ m_status \in ErrorStatuses

\* startStream has returned on the error of gst_parse_launch and the pipeline
\* that came with the error is installed
C12_PartialPipelineInstalled ==
    /\ Ran("startStream")
    /\ Called("gst_parse_launch", "error_partial")
    /\ m_pipeline # NULL
    /\ m_pipeline \in DOMAIN gstHeap
    /\ m_status \in ErrorStatuses
    /\ ~m_isStreaming

\* ---------------------------------------------------------------------- C13
\* C13: every startStream that fails (parse error, sink not found, or the
\* state change to PLAYING fails) has emitted errorOccurred exactly once when
\* it returns.  (Stated as claimed; the path of the missing sink breaks it.)
StartFailed ==
    \/ ConstructionFailed
    \/ Ran("startStream") /\ Called("set_state(PLAYING)", "failure")

C13_EveryStartFailureIsReported ==
    StartFailed => Len(SignalsNamed(trace, "errorOccurred")) = 1

\* startStream has returned because the sink was not found: the status tells
\* it, no errorOccurred was emitted
C13_SilentFailure ==
    /\ Ran("startStream")
    /\ Called("gst_bin_get_by_name", "null")
    /\ SignalsNamed(trace, "errorOccurred") = <<>>
    /\ m_status = "Error: Failed to initialize"
    /\ m_pipeline = NULL

\* ---------------------------------------------------------------------- C14
\* C14: a startStream whose state change to PLAYING fails emits errorOccurred
\* once, while the pipeline still exists, and returns after the teardown: no
\* pipeline, sink, bus or timer is left, isStreaming and hasActiveStream are
\* false, and a startStream on any port that the library carries out then
\* ends streaming on that port.
PlayFailedRan == Ran("startStream") /\ Called("set_state(PLAYING)", "failure")

C14_FailedStartIsTornDown ==
    PlayFailedRan =>
        /\ m_pipeline = NULL /\ m_appsink = NULL /\ m_bus = NULL
        /\ m_busTimer = NULL /\ m_frameTimeoutTimer = NULL
        /\ gstHeap = <<>> /\ qtimers = <<>>
        /\ ~m_isStreaming /\ ~m_hasActiveStream
        /\ Len(SignalsNamed(trace, "errorOccurred")) = 1
        /\ SignalsNamed(trace, "errorOccurred")[1].arg = "Failed to start stream"
        /\ SignalsNamed(trace, "errorOccurred")[1].seen.pipeline # NULL
        /\ Called("unref(pipeline)", "")
        /\ \A port \in Ports, detail \in ErrorDetails :
               LET w == startStream(World, port, "ok", detail, "success")
               IN  /\ w.m_isStreaming
                   /\ w.m_status = StatusStreamingOnPort(port)
                   /\ DOMAIN w.gstHeap = {w.m_pipeline}
                   /\ w.gstHeap[w.m_pipeline].state = "PLAYING"
                   /\ w.gstHeap[w.m_pipeline].port = port

\* startStream(5001) has failed to start its pipeline on a receiver that was
\* streaming on 5000: nothing is left of either pipeline
C14_Witness ==
    /\ PlayFailedRan
    /\ trace[1].arg = "5001"
    /\ trace[1].seen.isStreaming
    /\ trace[1].seen.port = 5000
    /\ m_pipeline = NULL
    /\ gstHeap = <<>>
    /\ ~m_isStreaming

\* ---------------------------------------------------------------------- C15
\* C15: a hand-off lambda that runs when the pipeline handle is cleared (it
\* was posted before the teardown) changes neither isStreaming nor
\* hasActiveStream nor the status nor the time of the last frame.  (Stated as
\* claimed; the lambda has no such check.)
C15_StaleHandOffIsNoOp ==
    [][(Ran("lambda")' /\ m_pipeline = NULL) =>
           UNCHANGED <<m_isStreaming, m_hasActiveStream, m_status, m_lastFrameTime>>]_vars

\* the lambda has run without a pipeline and has emitted hasActiveStreamChanged
\* and statusChanged and stamped the time of the last frame
C15_StaleHandOffChangedState ==
    /\ Ran("lambda")
    /\ trace[1].seen.pipeline = NULL
    /\ ~trace[1].seen.hasActiveStream
    /\ SignalsNamed(trace, "hasActiveStreamChanged") # <<>>
    /\ SignalsNamed(trace, "statusChanged") # <<>>
    /\ m_lastFrameTime = now
    /\ m_pipeline = NULL

\* ---------------------------------------------------------------------- C16
\* C16: whatever a fetch returns is one whole frame that was in the slot (the
\* placeholder or a frame handed off), with its dimensions, also when the
\* fetch runs on the image-loading thread while a hand-off is applied.
\* (Stated as claimed; the read is not synchronised with the write.)
WholeFrames ==
    {FillImage(PlaceholderWidth, PlaceholderHeight, Black)} \cup RealFrames

C16_FetchIsConsistent ==
    fetch.pc = "done" =>
        /\ fetch.result.image \in WholeFrames
        /\ fetch.result.size = <<fetch.result.image.width, fetch.result.image.height>>

\* a fetch that began before the first hand-off and returned after it has
\* returned an image that is no frame at all
C16_InconsistentSnapshot ==
    /\ fetch.pc = "done"
    /\ fetch.raced
    /\ fetch.result.image \notin WholeFrames
    /\ m_frameCounter = 1
    /\ m_currentImage \in RealFrames

\* ---------------------------------------------------------------------- C17
\* C17: the frames are applied in the order in which the producer pulled
\* them: a pulled frame is posted behind the hand-offs that wait, the event
\* loop applies the oldest one and replaces the whole slot with it, and no
\* step but the arrival of a frame changes which frame is the last to have
\* arrived, the frame the slot holds once the queue is empty.
LatestFrame ==
    IF eventQueue # <<>> THEN eventQueue[Len(eventQueue)] ELSE m_currentImage

C17_Step ==
    /\ handedOff' # handedOff =>
           \E sample \in OkSamples :
               eventQueue' = Append(eventQueue, processNewSample(sample))
    /\ Ran("lambda")' =>
           /\ m_currentImage' = Head(eventQueue)
           /\ eventQueue' = Tail(eventQueue)
    /\ (lifecycle' = "alive" /\ handedOff' = handedOff) => LatestFrame' = LatestFrame

C17_HandOffsInArrivalOrder == [][C17_Step]_vars

\* two different frames waited in the queue and both have been applied: the
\* slot holds the one that arrived last
C17_Witness ==
    /\ Ran("lambda")
    /\ eventQueue = <<>>
    /\ handedOff = 2
    /\ m_frameCounter = 2
    /\ trace[1].seen.frameId = "frame_1"
    /\ trace[1].seen.image \in RealFrames
    /\ m_currentImage \in RealFrames
    /\ m_currentImage # trace[1].seen.image

\* ---------------------------------------------------------------------- C18
\* C18: the frame posted for a pulled sample of width W and height H has the
\* same dimensions and is the sample's image mirrored in both directions:
\* its pixel (x, y) is the pixel (W-1-x, H-1-y) of the buffer (rows `stride`
\* apart); mirroring it once more gives back the image of the buffer; and
\* the hand-off makes exactly the posted frame the current one.
C18_Posted ==
    (Ran("onNewSample") /\ trace[1].arg.kind = "ok") =>
        LET sample == trace[1].arg
            posted == eventQueue[Len(eventQueue)]
        IN  /\ posted.width = sample.width
            /\ posted.height = sample.height
            /\ \A x \in 0..(sample.width - 1), y \in 0..(sample.height - 1) :
                   PixelAt(posted, x, y) =
                       sample.data[(sample.height - 1 - y) * sample.stride
                                       + (sample.width - 1 - x) + 1]
            /\ mirrored(posted, TRUE, TRUE) =
                   ImageFromBuffer(sample.data, sample.width, sample.height, sample.stride)

C18_MirroredBothWays ==
    [](C18_Posted) /\ [][Ran("lambda")' => m_currentImage' = Head(eventQueue)]_vars

\* a frame of more than one row and column, from a buffer with padding, has
\* been posted
C18_Witness ==
    /\ Ran("onNewSample")
    /\ trace[1].arg.kind = "ok"
    /\ trace[1].arg.width = MaxWidth
    /\ trace[1].arg.height = MaxHeight
    /\ trace[1].arg.stride > trace[1].arg.width
    /\ PixelAt(eventQueue[Len(eventQueue)], 0, 0)
           = PatternBase + MaxWidth * MaxHeight - 1

BusStatuses ==
    {"Error: " \o message.text : message \in {m \in BusMessages : m.type = "ERROR"}}
        \cup {"Stream ended"}

C19_State ==
    /\ (m_isStreaming /\ m_hasActiveStream) =>
           m_status \in {"Streaming (receiving frames)"} \cup BusStatuses
    /\ \A port \in Ports :
           m_status = StatusStreamingOnPort(port) =>
               m_isStreaming /\ ~m_hasActiveStream /\ LivePorts = {port}

C19_Step ==
    (Ran("lambda")' /\ ~m_hasActiveStream) =>
        m_hasActiveStream' /\ m_status' = "Streaming (receiving frames)"

TeardownOrder ==
    <<"busTimer.stop", "frameTimeoutTimer.stop", "bus.flush", "set_state(NULL)",
      "unref(appsink)", "unref(bus)", "unref(pipeline)">>

TeardownExpected(seen) ==
    SelectSeq(TeardownOrder,
              LAMBDA name :
                  CASE name = "busTimer.stop" -> seen.busTimer # NULL
                    [] name = "frameTimeoutTimer.stop" -> seen.frameTimeoutTimer # NULL
                    [] name \in {"bus.flush", "unref(bus)"} -> seen.bus # NULL
                    [] name = "unref(appsink)" -> seen.appsink # NULL
                    [] OTHER -> TRUE)

\* log: what stopStream logged; seen: the properties and pointers it found
TeardownInOrder(log, seen) ==
    LET expected == TeardownExpected(seen)
    IN  /\ Len(Calls(log)) = Len(expected)
        /\ \A i \in 1..Len(expected) :
               /\ log[i].kind = "call"
               /\ log[i].name = expected[i]
               /\ log[i].seen.isStreaming = seen.isStreaming
               /\ log[i].seen.hasActiveStream = seen.hasActiveStream
               /\ log[i].seen.status = seen.status
        /\ \A i \in (Len(expected) + 1)..Len(log) : log[i].kind = "signal"
        /\ log[Len(expected)].seen.pipeline = NULL

IndexOfCall(log, name) == CHOOSE i \in 1..Len(log) : log[i].kind = "call" /\ log[i].name = name

C20_TeardownOrder ==
    /\ ((Ran("stopStream") \/ Ran("~VideoStreamReceiver")) /\ trace[1].seen.pipeline # NULL)
           => TeardownInOrder(Tail(trace), trace[1].seen)
    /\ PlayFailedRan =>
           LET k == IndexOfCall(trace, "set_state(PLAYING)")
           IN  /\ trace[k + 1].kind = "signal" /\ trace[k + 1].name = "statusChanged"
               /\ trace[k + 2].kind = "signal" /\ trace[k + 2].name = "errorOccurred"
               /\ TeardownInOrder(SubSeq(trace, k + 3, Len(trace)), trace[k + 2].seen)
    /\ (Alive /\ m_pipeline # NULL) =>
           TeardownInOrder(stopStream([World EXCEPT !.trace = <<>>]).trace, Seen(World))

\* stopStream has just torn down a stream that was receiving frames: seven
\* calls, then the three notifications
C20_Witness ==
    /\ Ran("stopStream")
    /\ trace[1].seen.isStreaming
    /\ trace[1].seen.hasActiveStream
    /\ Len(trace) = 1 + Len(TeardownOrder) + 3
    /\ trace[Len(TeardownOrder) + 1].name = "unref(pipeline)"
    /\ trace[Len(trace)].name = "statusChanged"
    /\ m_status = "Stopped"

\* ---------------------------------------------------------------------- C21
\* C21: no bus tick and no timeout tick reads a released or half destroyed
\* pipeline or bus.  A tick runs only on a receiver that streams, with the
\* pipeline, the bus and the timer installed and the pipeline object alive;
\* in stopStream both timers are gone before the bus is drained and before
\* anything is released, and no timer runs when no pipeline is installed;
\* and a tick handler entered while isStreaming is false or while the
\* pipeline, the bus or its timer is cleared returns the state it found.
TeardownCalls ==
    {"bus.flush", "set_state(NULL)", "unref(appsink)", "unref(bus)", "unref(pipeline)"}

TickReadsLivePipeline(timer) ==
    /\ m_isStreaming
    /\ timer \in DOMAIN qtimers
    /\ m_pipeline \in DOMAIN gstHeap
    /\ m_bus = m_pipeline
    /\ {"graph", "bus"} \subseteq gstHeap[m_pipeline].refs
    /\ gstHeap[m_pipeline].state = "PLAYING"

C21_Tick ==
    /\ Ran("checkBusMessages")' => TickReadsLivePipeline(m_busTimer)
    /\ Ran("checkFrameTimeout")' => TickReadsLivePipeline(m_frameTimeoutTimer)

C21_TimersStoppedFirst ==
    /\ \A i \in 1..Len(trace) :
           (trace[i].kind = "call" /\ trace[i].name \in TeardownCalls) =>
               trace[i].seen.busTimer = NULL /\ trace[i].seen.frameTimeoutTimer = NULL
    /\ m_pipeline = NULL => ~TimerRuns("bus") /\ ~TimerRuns("frame")

C21_Guards ==
    /\ (~m_isStreaming \/ m_pipeline = NULL \/ m_bus = NULL \/ m_frameTimeoutTimer = NULL)
           => checkFrameTimeout(World) = World
    /\ (~m_isStreaming \/ m_pipeline = NULL \/ m_bus = NULL \/ m_busTimer = NULL)
           => checkBusMessages(World) = World

C21_NoTickOnReleasedPipeline ==
    [](C21_TimersStoppedFirst /\ C21_Guards) /\ [][C21_Tick]_vars

\* a hand-off was applied after stopStream and the clock has passed the
\* threshold: no timer runs, and the handler of the timeout tick would leave
\* the active stream that is reported as it is
C21_Witness ==
    /\ m_pipeline = NULL
    /\ ~m_isStreaming
    /\ m_hasActiveStream
    /\ now - m_lastFrameTime > FrameTimeoutMs
    /\ ~TimerRuns("bus") /\ ~TimerRuns("frame")
    /\ checkFrameTimeout(World) = World
    /\ checkFrameTimeout_unguarded(World) # World

\* ---------------------------------------------------------------------- C22
\* C22: the callback of the streaming thread (onNewSample, processNewSample)
\* writes no member of the receiver: the step in which a sample is pulled
\* leaves the image, the frame identifier, the frame counter, the time of the
\* last frame, hasActiveStream, the status and every other member as they
\* are and at most posts the lambda; and each change of one of them is made
\* by a handler that runs in the consumer context.
ConsumerHandlers == {"lambda", "startStream", "stopStream"}

C22_Step ==
    /\ Ran("onNewSample")' =>
           /\ UNCHANGED <<m_currentImage, m_frameId, m_frameCounter, m_lastFrameTime,
                          m_hasActiveStream, m_status, m_isStreaming, m_pipeline,
                          m_appsink, m_bus, m_busTimer, m_frameTimeoutTimer>>
           /\ eventQueue' \in {eventQueue, Append(eventQueue, processNewSample(trace'[1].arg))}
    /\ (<<m_currentImage, m_frameId, m_frameCounter, m_lastFrameTime, m_hasActiveStream,
          m_status>>' # <<m_currentImage, m_frameId, m_frameCounter, m_lastFrameTime,
                          m_hasActiveStream, m_status>>) =>
           \E handler \in ConsumerHandlers : Ran(handler)'

C22_ProducerWritesNoState == [][C22_Step]_vars

\* the first sample of a stream has been pulled and its frame posted: the
\* slot, the counter, the flags and the status are those startStream left
C22_Witness ==
    /\ Ran("onNewSample")
    /\ trace[1].arg.kind = "ok"
    /\ Len(eventQueue) = 1
    /\ m_currentImage = FillImage(PlaceholderWidth, PlaceholderHeight, Black)
    /\ m_frameCounter = 0
    /\ m_lastFrameTime = 0
    /\ ~m_hasActiveStream
    /\ m_status = StatusStreamingOnPort(5000)

\* ---------------------------------------------------------------------- C23
\* C23: handling an error message of the bus changes the status, to
\* "Error: <message>", and emits errorOccurred, and nothing else: the
\* pipeline, the sink, the bus and the timers stay installed and alive,
\* isStreaming and hasActiveStream keep their values, and the receiver makes
\* no library call (no teardown, no restart).  This holds for the handler
\* applied to any error in any state with a pipeline, and for every poll tick
\* that finds an error on the bus.
ErrorMessages == {message \in BusMessages : message.type = "ERROR"}

C23_Handler ==
    (Alive /\ m_pipeline # NULL) =>
        \A message \in ErrorMessages :
            LET w == handleBusMessage(World, message)
            IN  /\ [w EXCEPT !.m_status = m_status, !.trace = <<>>] = World
                /\ w.m_status = "Error: " \o message.text
                /\ Calls(w.trace) = <<>>
                /\ Len(SignalsNamed(w.trace, "errorOccurred")) = 1
                /\ \A i \in 1..Len(w.trace) :
                       w.trace[i].name \in {"statusChanged", "errorOccurred"}

C23_Tick ==
    (Ran("checkBusMessages")' /\ \E i \in 1..Len(PendingBus) : PendingBus[i] \in ErrorMessages) =>
        /\ UNCHANGED <<m_pipeline, m_appsink, m_bus, m_busTimer, m_frameTimeoutTimer,
                       m_isStreaming, m_hasActiveStream, qtimers, m_currentImage,
                       m_frameId, m_frameCounter, m_lastFrameTime, eventQueue>>
        /\ gstHeap' = [gstHeap EXCEPT ![m_bus].bus = <<>>]
        /\ Calls(trace') = <<>>
        /\ PendingBus[Len(PendingBus)] \in ErrorMessages =>
               m_status' = "Error: " \o PendingBus[Len(PendingBus)].text

C23_BusErrorChangesOnlyStatus == [](C23_Handler) /\ [][C23_Tick]_vars

\* a poll tick has just handled an error on a stream that was receiving
\* frames: the stream is still reported active, the pipeline still plays
\* and both timers exist
C23_Witness ==
    /\ Ran("checkBusMessages")
    /\ SignalsNamed(trace, "errorOccurred") # <<>>
    /\ trace[1].seen.status = "Streaming (receiving frames)"
    /\ m_status = "Error: Internal data stream error."
    /\ m_isStreaming
    /\ m_hasActiveStream
    /\ m_pipeline \in LivePipelines
    /\ m_appsink = m_pipeline /\ m_bus = m_pipeline
    /\ DOMAIN qtimers = {m_busTimer, m_frameTimeoutTimer}
    /\ Cardinality(DOMAIN qtimers) = 2

\* ---------------------------------------------------------------------- C24
\* C24: the bus messages that are no errors change no streaming state.  A
\* warning, a state change of the pipeline or of a child, and a message of
\* any other kind leave everything as it is and emit nothing; an end of
\* stream sets the status to "Stream ended" and changes nothing else, so
\* isStreaming, hasActiveStream and the pipeline are as before.  This holds
\* for the handler applied in any state with a pipeline and for every poll
\* tick that finds no error on the bus.
IgnoredMessages == {message \in BusMessages : message.type \notin {"ERROR", "EOS"}}
EndOfStream == [type |-> "EOS", src |-> "pipeline", text |-> ""]

C24_Handler ==
    (Alive /\ m_pipeline # NULL) =>
        /\ \A message \in IgnoredMessages : handleBusMessage(World, message) = World
        /\ LET w == handleBusMessage(World, EndOfStream)
           IN  /\ [w EXCEPT !.m_status = m_status, !.trace = <<>>] = World
               /\ w.m_status = "Stream ended"
               /\ \A i \in 1..Len(w.trace) : w.trace[i].name = "statusChanged"

C24_Tick ==
    (Ran("checkBusMessages")' /\ \A i \in 1..Len(PendingBus) : PendingBus[i] \notin ErrorMessages) =>
        /\ UNCHANGED <<m_pipeline, m_appsink, m_bus, m_busTimer, m_frameTimeoutTimer,
                       m_isStreaming, m_hasActiveStream, qtimers, m_currentImage,
                       m_frameId, m_frameCounter, m_lastFrameTime, eventQueue>>
        /\ gstHeap' = [gstHeap EXCEPT ![m_bus].bus = <<>>]
        /\ IF \E i \in 1..Len(PendingBus) : PendingBus[i] = EndOfStream
           THEN /\ m_status' = "Stream ended"
                /\ \A i \in 2..Len(trace') : trace'[i].name = "statusChanged"
           ELSE /\ m_status' = m_status
                /\ Len(trace') = 1

C24_OtherBusMessages == [](C24_Handler) /\ [][C24_Tick]_vars

\* a poll tick has just handled the end of the stream on a receiver that
\* was receiving frames: only the status has changed
C24_Witness ==
    /\ Ran("checkBusMessages")
    /\ Len(trace) = 2
    /\ trace[2].name = "statusChanged"
    /\ trace[1].seen.status = "Streaming (receiving frames)"
    /\ m_status = "Stream ended"
    /\ m_isStreaming
    /\ m_hasActiveStream
    /\ m_pipeline \in LivePipelines

\* ---------------------------------------------------------------------- C25
\* C25: a poll tick handles all the messages that are pending on the bus,
\* each one once and in the order in which they were posted, and leaves the
\* bus empty: what it does to the status and what it emits is what handling
\* the pending messages one after the other does.  A message that is pending
\* when the pipeline is torn down (by stopStream, by the destructor or by a
\* startStream) is dropped with the pipeline object: the status is the same
\* when the bus has been drained, no errorOccurred is emitted for it, and the
\* status it would have set is not the one the handler returns with.
RECURSIVE HandledInOrder(_, _)
HandledInOrder(w, messages) ==
    IF messages = <<>>
    THEN w
    ELSE HandledInOrder(handleBusMessage(w, Head(messages)), Tail(messages))

C25_Tick ==
    Ran("checkBusMessages")' =>
        LET expected == HandledInOrder(Enter([World EXCEPT !.gstHeap[m_bus].bus = <<>>],
                                             "checkBusMessages", ""),
                                       PendingBus)
        IN  /\ PendingBus' = <<>>
            /\ gstHeap' = expected.gstHeap
            /\ m_status' = expected.m_status
            /\ trace' = expected.trace
            /\ Len(SignalsNamed(trace', "errorOccurred"))
                   = Len(SelectSeq(PendingBus, LAMBDA message : message \in ErrorMessages))

C25_Teardown ==
    (/\ PendingBus # <<>>
     /\ \E handler \in {"stopStream", "~VideoStreamReceiver", "startStream"} : Ran(handler)') =>
        /\ \A p \in DOMAIN gstHeap' : gstHeap'[p].bus = <<>>
        /\ \E i \in 1..Len(trace') :
               /\ trace'[i].kind = "call" /\ trace'[i].name = "bus.flush"
               /\ trace'[i].seen.status = m_status
               /\ \A j \in 1..(i - 1) : trace'[j].kind # "signal"
        /\ \A i \in 1..Len(trace') :
               (trace'[i].kind = "signal" /\ trace'[i].name = "errorOccurred") =>
                   trace'[i].arg \notin {"GStreamer error: " \o message.text :
                                             message \in ErrorMessages}
        /\ m_status' \notin BusStatuses
        /\ (Ran("stopStream")' \/ Ran("~VideoStreamReceiver")') =>
               /\ SignalsNamed(trace', "errorOccurred") = <<>>
               /\ m_status' = "Stopped"

C25_BusDrainedInOrder == [][C25_Tick /\ C25_Teardown]_vars

\* a poll tick has just handled two messages, the end of the stream and then
\* an error: the status went through "Stream ended" to the error, one
\* errorOccurred was emitted and the bus is empty
C25_Witness ==
    /\ Ran("checkBusMessages")
    /\ Len(trace) = 4
    /\ trace[2].name = "statusChanged" /\ trace[2].seen.status = "Stream ended"
    /\ trace[3].name = "statusChanged"
    /\ trace[3].seen.status = "Error: Internal data stream error."
    /\ trace[4].name = "errorOccurred"
    /\ PendingBus = <<>>
    /\ m_status = "Error: Internal data stream error."

\* ---------------------------------------------------------------------- C26
\* C26: a pulled sample without a buffer or caps, with caps that cannot be
\* parsed or with a buffer that cannot be mapped is dropped without effect,
\* and so is a wake-up without a sample: no lambda is posted, the frame slot,
\* the frame identifier, the counter, the time of the last frame,
\* hasActiveStream, the status and everything else are unchanged, and nothing
\* is emitted (no frameChanged, no errorOccurred).
C26_Step ==
    (Ran("onNewSample")' /\ trace'[1].arg.kind \in BadKinds) =>
        /\ UNCHANGED <<m_pipeline, m_appsink, m_bus, m_currentImage, m_frameId,
                       m_status, m_frameCounter, m_isStreaming, m_hasActiveStream,
                       m_busTimer, m_frameTimeoutTimer, m_lastFrameTime, gstHeap,
                       qtimers, eventQueue, now, fetch, lifecycle, handedOff>>
        /\ Signals(trace') = <<>>
        /\ Len(trace') = 1

C26_BadSampleIsDropped == [][C26_Step]_vars

\* a sample whose caps cannot be parsed was pulled on a stream that has
\* received one frame: no lambda waits and the frame is still the current one
C26_Witness ==
    /\ Ran("onNewSample")
    /\ trace[1].arg.kind = "badcaps"
    /\ Len(trace) = 1
    /\ eventQueue = <<>>
    /\ m_hasActiveStream
    /\ m_frameCounter = 1
    /\ m_frameId = "frame_1"
    /\ m_status = "Streaming (receiving frames)"

\* ---------------------------------------------------------------------- C27
\* C27: the hand-off that is applied while hasActiveStream is false (the
\* first frame, or the first one after a timeout) sets hasActiveStream and
\* sets the status to "Streaming (receiving frames)"; the hand-off that is
\* applied while hasActiveStream is true leaves the flag and the status as
\* they are and emits neither notification, so that a status "Error: ..." or
\* "Stream ended" stays while frames keep arriving.
C27_Step ==
    Ran("lambda")' =>
        /\ m_hasActiveStream'
        /\ IF m_hasActiveStream
           THEN /\ m_status' = m_status
                /\ SignalsNamed(trace', "statusChanged") = <<>>
                /\ SignalsNamed(trace', "hasActiveStreamChanged") = <<>>
           ELSE /\ m_status' = "Streaming (receiving frames)"
                /\ Len(SignalsNamed(trace', "hasActiveStreamChanged")) = 1

C27_StatusOnlyOnTransition == [][C27_Step]_vars

\* the second frame has been applied after the bus reported an error: the
\* status still shows the error
C27_Witness ==
    /\ Ran("lambda")
    /\ trace[1].seen.hasActiveStream
    /\ trace[1].seen.status = "Error: Internal data stream error."
    /\ m_status = "Error: Internal data stream error."
    /\ m_hasActiveStream
    /\ m_frameCounter = 2
    /\ Len(trace) = 2

\* ---------------------------------------------------------------------- C28
\* C28: statusChanged, streamingChanged and hasActiveStreamChanged are
\* emitted exactly when the value changes, and after the new value is
\* stored.  Along the log of every step the status (isStreaming,
\* hasActiveStream) an observer sees differs from the one seen at the entry
\* before exactly at a statusChanged (streamingChanged,
\* hasActiveStreamChanged), where it is the new value already; the values
\* at the last entry are those of the state; a step without a log changes
\* none of the three; and a setter called with the current value returns the
\* state as it is.
NotifiedChange(i, signal, before, after) ==
    (after # before) <=> (trace[i].kind = "signal" /\ trace[i].name = signal)

C28_Log ==
    /\ \A i \in 2..Len(trace) :
           /\ NotifiedChange(i, "statusChanged",
                             trace[i - 1].seen.status, trace[i].seen.status)
           /\ NotifiedChange(i, "streamingChanged",
                             trace[i - 1].seen.isStreaming, trace[i].seen.isStreaming)
           /\ NotifiedChange(i, "hasActiveStreamChanged",
                             trace[i - 1].seen.hasActiveStream, trace[i].seen.hasActiveStream)
    /\ trace # <<>> =>
           /\ trace[Len(trace)].seen.status = m_status
           /\ trace[Len(trace)].seen.isStreaming = m_isStreaming
           /\ trace[Len(trace)].seen.hasActiveStream = m_hasActiveStream

C28_Setters ==
    /\ setStatus(World, m_status) = World
    /\ setStreaming(World, m_isStreaming) = World
    /\ setHasActiveStream(World, m_hasActiveStream) = World
    /\ Len(setStatus(World, m_status \o "!").trace) = 1
    /\ setStatus(World, m_status \o "!").trace[1].seen.status = m_status \o "!"
    /\ Len(setStreaming(World, ~m_isStreaming).trace) = 1
    /\ setStreaming(World, ~m_isStreaming).trace[1].seen.isStreaming = ~m_isStreaming
    /\ Len(setHasActiveStream(World, ~m_hasActiveStream).trace) = 1
    /\ setHasActiveStream(World, ~m_hasActiveStream).trace[1].seen.hasActiveStream
           = ~m_hasActiveStream

C28_Step ==
    IF trace' = <<>>
    THEN UNCHANGED <<m_status, m_isStreaming, m_hasActiveStream>>
    ELSE /\ trace'[1].kind = "enter"
         /\ trace'[1].seen.status = m_status
         /\ trace'[1].seen.isStreaming = m_isStreaming
         /\ trace'[1].seen.hasActiveStream = m_hasActiveStream

C28_NotifiedExactlyOnChange == [](C28_Log /\ C28_Setters) /\ [][C28_Step]_vars

\* stopStream has just torn down a stream that had received no frame:
\* streamingChanged and statusChanged were emitted, hasActiveStreamChanged
\* was not, setHasActiveStream(false) having found the flag false
C28_Witness ==
    /\ Ran("stopStream")
    /\ trace[1].seen.isStreaming
    /\ ~trace[1].seen.hasActiveStream
    /\ Len(Signals(trace)) = 2
    /\ Signals(trace)[1].name = "streamingChanged"
    /\ ~Signals(trace)[1].seen.isStreaming
    /\ Signals(trace)[1].seen.status # "Stopped"
    /\ Signals(trace)[2].name = "statusChanged"
    /\ Signals(trace)[2].seen.status = "Stopped"
    /\ SignalsNamed(trace, "hasActiveStreamChanged") = <<>>

\* ---------------------------------------------------------------------- C29
\* C29: between operations the two timers, the reference to the sink and
\* the reference to the bus exist if and only if a pipeline is installed:
\* all five pointers are null or none is, the timer objects that exist are
\* the two the members point to, and the pipeline object carries the
\* references to the sink and the bus exactly when the pointers are set.
\* (Stated as claimed; the pipeline that a parse error leaves installed
\* breaks it.)
InstalledParts ==
    {part \in {"appsink", "bus", "busTimer", "frameTimeoutTimer"} :
        CASE part = "appsink" -> m_appsink # NULL
          [] part = "bus" -> m_bus # NULL
          [] part = "busTimer" -> m_busTimer # NULL
          [] part = "frameTimeoutTimer" -> m_frameTimeoutTimer # NULL}

C29_PartsExistWithPipeline ==
    /\ IF m_pipeline # NULL
       THEN InstalledParts = {"appsink", "bus", "busTimer", "frameTimeoutTimer"}
       ELSE InstalledParts = {}
    /\ DOMAIN qtimers = {m_busTimer, m_frameTimeoutTimer} \ {NULL}
    /\ m_pipeline # NULL => gstHeap[m_pipeline].refs = {"graph", "sink", "bus"}

\* startStream has returned on a parse error with the partial pipeline
\* installed: a pipeline without a sink reference, a bus reference or timers
C29_PipelineWithoutParts ==
    /\ Ran("startStream")
    /\ Called("gst_parse_launch", "error_partial")
    /\ m_pipeline # NULL
    /\ InstalledParts = {}
    /\ qtimers = <<>>
    /\ gstHeap[m_pipeline].refs = {"graph"}

\* ---------------------------------------------------------------------- C30
\* C30: in every reachable state isStreaming is true only if a pipeline is
\* installed, playing, with its sink, its bus and both timers; and
\* isStreaming is false when a startStream has failed (at the construction
\* or at the state change) and when stopStream or the destructor has run.
C30_StreamingOnlyWithPipeline ==
    /\ m_isStreaming =>
           /\ m_pipeline \in LivePipelines
           /\ InstalledParts = {"appsink", "bus", "busTimer", "frameTimeoutTimer"}
           /\ m_appsink = m_pipeline /\ m_bus = m_pipeline
           /\ DOMAIN qtimers = {m_busTimer, m_frameTimeoutTimer}
           /\ TimerRuns("bus") /\ TimerRuns("frame")
    /\ StartFailed => ~m_isStreaming
    /\ (Ran("stopStream") \/ Ran("~VideoStreamReceiver")) => ~m_isStreaming
    /\ Alive => ~stopStream(World).m_isStreaming

\* a startStream on a streaming receiver has failed at the construction of
\* the pipeline, with the partial pipeline left installed: the receiver does
\* not report streaming
C30_Witness ==
    /\ Ran("startStream")
    /\ Called("gst_parse_launch", "error_partial")
    /\ trace[1].seen.isStreaming
    /\ trace[1].seen.hasActiveStream
    /\ m_pipeline # NULL
    /\ ~m_isStreaming
    /\ SignalsNamed(trace, "streamingChanged") # <<>>

\* ---------------------------------------------------------------------- C31
\* C31: a startStream whose state change to PLAYING fails returns with the
\* status "Stopped".  The status "Error: Failed to start" is set, and
\* notified, before the teardown, and errorOccurred is emitted; stopStream
\* then replaces it, so that the last statusChanged of the call shows
\* "Stopped" and the failure is visible only in the two notifications.
C31_StatusAfterFailedStart ==
    PlayFailedRan =>
        LET changes == SignalsNamed(trace, "statusChanged")
            k       == IndexOfCall(trace, "set_state(PLAYING)")
        IN  /\ m_status = "Stopped"
            /\ trace[k + 1].kind = "signal" /\ trace[k + 1].name = "statusChanged"
            /\ trace[k + 1].seen.status = "Error: Failed to start"
            /\ trace[k + 2].kind = "signal" /\ trace[k + 2].name = "errorOccurred"
            /\ trace[k + 2].arg = "Failed to start stream"
            /\ trace[k + 2].seen.status = "Error: Failed to start"
            /\ changes[Len(changes)].seen.status = "Stopped"
            /\ trace[Len(trace)] = changes[Len(changes)]
            /\ Len(SignalsNamed(trace, "errorOccurred")) = 1

\* startStream(5000) on the receiver as constructed has failed at the state
\* change: the status went from "Ready" through "Starting stream..." and
\* "Error: Failed to start" to "Stopped"
C31_Witness ==
    /\ PlayFailedRan
    /\ trace[1].seen.status = "Ready"
    /\ Len(SignalsNamed(trace, "statusChanged")) = 3
    /\ SignalsNamed(trace, "statusChanged")[1].seen.status = "Starting stream..."
    /\ SignalsNamed(trace, "statusChanged")[2].seen.status = "Error: Failed to start"
    /\ SignalsNamed(trace, "statusChanged")[3].seen.status = "Stopped"
    /\ m_status = "Stopped"

\* ---------------------------------------------------------------------- C32
\* C32: between the handlers of the consumer context hasActiveStream is true
\* only if the time of the last frame is not 0; so the timeout tick that
\* finds the time 0 ("no frame received yet") changes nothing and emits
\* nothing, and the status is never "Waiting for video stream...".
C32_State ==
    /\ m_hasActiveStream => m_lastFrameTime # 0
    /\ m_status # "Waiting for video stream..."
    /\ \A i \in 1..Len(trace) : trace[i].seen.status # "Waiting for video stream..."

C32_Step ==
    (Ran("checkFrameTimeout")' /\ m_lastFrameTime = 0) =>
        /\ UNCHANGED <<m_pipeline, m_appsink, m_bus, m_currentImage, m_frameId,
                       m_status, m_frameCounter, m_isStreaming, m_hasActiveStream,
                       m_busTimer, m_frameTimeoutTimer, m_lastFrameTime, gstHeap,
                       qtimers, eventQueue, now>>
        /\ Len(trace') = 1

C32_NoFrameBranchIsDead == [](C32_State) /\ [][C32_Step]_vars

\* the timeout tick has run on a stream that has had no frame for longer
\* than the threshold: the status still names the port
C32_Witness ==
    /\ Ran("checkFrameTimeout")
    /\ m_lastFrameTime = 0
    /\ now - ClockStart > FrameTimeoutMs
    /\ m_isStreaming
    /\ ~m_hasActiveStream
    /\ Len(trace) = 1
    /\ m_status = StatusStreamingOnPort(5000)

\* ---------------------------------------------------------------------- C33
\* C33: every frame that passes the checks of the callback is applied
\* exactly once.  A frame that is pulled is posted behind the lambdas that
\* wait; only the running of a lambda takes one off the queue, the oldest,
\* which becomes the current image, increases the counter by one and emits
\* one frameChanged; startStream and stopStream leave the queue as it is; so
\* the frames applied and the frames waiting are the frames posted.  And,
\* the event loop running, the n-th frame posted is applied, whatever
\* stopStream or startStream calls come in between, as long as the receiver
\* exists.
C33_Posted ==
    handedOff' # handedOff =>
        /\ handedOff' = handedOff + 1
        /\ \E sample \in OkSamples :
               eventQueue' = Append(eventQueue, processNewSample(sample))

C33_Applied ==
    Ran("lambda")' =>
        /\ eventQueue' = Tail(eventQueue)
        /\ m_currentImage' = Head(eventQueue)
        /\ m_frameCounter' = m_frameCounter + 1
        /\ Len(SignalsNamed(trace', "frameChanged")) = 1

C33_Kept ==
    (lifecycle' = "alive" /\ handedOff' = handedOff /\ ~Ran("lambda")') =>
        UNCHANGED <<eventQueue, m_frameCounter, m_currentImage, m_frameId>>

C33_Conserved == Alive => handedOff = m_frameCounter + Len(eventQueue)

C33_EveryFrameAppliedOnce ==
    /\ [][C33_Posted /\ C33_Applied /\ C33_Kept]_vars
    /\ [](C33_Conserved)
    /\ \A n \in 1..MaxFrames : (handedOff >= n) ~> (m_frameCounter >= n \/ ~Alive)

\* two frames were posted and both have been applied, the second one after
\* stopStream: nothing waits, the counter is 2
C33_Witness ==
    /\ Ran("lambda")
    /\ trace[1].seen.pipeline = NULL
    /\ trace[1].seen.status = "Stopped"
    /\ trace[1].seen.frameId = "frame_1"
    /\ handedOff = 2
    /\ m_frameCounter = 2
    /\ eventQueue = <<>>
    /\ Len(SignalsNamed(trace, "frameChanged")) = 1

\* ---------------------------------------------------------------------- C34
\* What the log of the step taken last says about it.
SteerRan(handler) ==
    steerLog # <<>> /\ steerLog[1].kind = "enter" /\ steerLog[1].name = handler

SteerCalled(name) ==
    \E i \in 1..Len(steerLog) : steerLog[i].kind = "call" /\ steerLog[i].name = name

ValidIndex(index) == index >= 0 /\ index < Len(m_deviceIndices)

\* The step is connectDevice(index) for an index that is valid before it.
ConnectStep(index) ==
    /\ ValidIndex(index)
    /\ steerLog' # <<>>
    /\ steerLog'[1].kind = "enter"
    /\ steerLog'[1].name = "connectDevice"
    /\ steerLog'[1].arg = ToString(index)

\* The handle that was open is closed before SDL_JoystickOpen is called, and
\* SDL_JoystickOpen is called with no handle open.
C34_ClosedBeforeOpened ==
    /\ m_joystick # NULL =>
           \E i \in 1..Len(steerLog') :
               /\ steerLog'[i].kind = "call"
               /\ steerLog'[i].name = "SDL_JoystickClose"
               /\ \A j \in 1..i : steerLog'[j].name # "SDL_JoystickOpen"
    /\ \A i \in 1..Len(steerLog') :
           steerLog'[i].name = "SDL_JoystickOpen" => steerLog'[i].seen.open = {}

C34_Step == (\E index \in DeviceIndexes : ConnectStep(index)) => C34_ClosedBeforeOpened

\* The handles that are open are the one the controller holds, and the
\* destructor closes it.
C34_Handles ==
    /\ Cardinality(DOMAIN sdl.open) <= 1
    /\ DOMAIN sdl.open = {m_joystick} \ {NULL}
    /\ DOMAIN cleanupSDL(SteerWorld).sdl.open = {}

\* C34: connectDevice(index) with a valid index closes the device that is open
\* before it opens the new one; in every state reached by connectDevice,
\* disconnectDevice and refreshDevices at most one joystick handle is open, it
\* is the one the controller holds, and none is left that the controller does
\* not close.
C34_AtMostOneHandle == [](C34_Handles) /\ [][C34_Step]_vars

\* connectDevice(index) ran with a device open: that handle was closed and a
\* new one is open.
C34_Witness ==
    /\ SteerRan("connectDevice")
    /\ steerLog[1].seen.joystick # NULL
    /\ SteerCalled("SDL_JoystickClose")
    /\ SteerCalled("SDL_JoystickOpen")
    /\ m_joystick # NULL

\* ---------------------------------------------------------------------- C35
\* The step is connectDevice(index) for an index that is invalid before it.
RejectedConnectStep(index) ==
    /\ ~ValidIndex(index)
    /\ steerLog' # <<>>
    /\ steerLog'[1].kind = "enter"
    /\ steerLog'[1].name = "connectDevice"
    /\ steerLog'[1].arg = ToString(index)

\* Nothing of the controller, of SDL or of the service changed, and the step
\* emitted no signal, made no library call and sent no message.
C35_NothingHappened ==
    /\ UNCHANGED <<m_joystick, m_pollTimer, m_steering, m_throttle, m_connected,
                   m_deviceName, m_availableDevices, m_deviceIndices, sdl,
                   m_isConnected, m_webSocket>>
    /\ Len(steerLog') = 1

C35_Step == (\E index \in DeviceIndexes : RejectedConnectStep(index)) => C35_NothingHappened

\* C35: connectDevice(index) with an index below 0 or not below the number of
\* listed devices changes nothing: the connected device stays open and polled,
\* steering and throttle keep their values, and no notification is emitted.
C35_InvalidIndexIsNoOp == [][C35_Step]_vars

\* connectDevice ran with an invalid index while a device was connected, polled
\* and steered off centre.
C35_Witness ==
    /\ SteerRan("connectDevice")
    /\ \E index \in DeviceIndexes : steerLog[1].arg = ToString(index) /\ ~ValidIndex(index)
    /\ Len(steerLog) = 1
    /\ m_connected /\ m_pollTimer /\ m_joystick # NULL
    /\ m_steering # 0 /\ m_throttle # 0

\* ---------------------------------------------------------------------- C36
\* disconnectDevice ran with no device connected.
C36_NoDeviceCase ==
    /\ SteerRan("disconnectDevice")
    /\ steerLog[1].seen.joystick = NULL
    /\ ~steerLog[1].seen.connected

\* C36: disconnectDevice is safe to call with no device connected (it closes no
\* handle and stops no timer then), and after it returns, from any state,
\* connected is false, the device name is empty, steering and throttle are
\* both 0 and polling is stopped.
C36_DisconnectPostState ==
    SteerRan("disconnectDevice") =>
        /\ ~m_connected
        /\ m_deviceName = ""
        /\ m_steering = 0
        /\ m_throttle = 0
        /\ ~m_pollTimer
        /\ m_joystick = NULL
        /\ steerLog[1].seen.joystick = NULL => ~SteerCalled("SDL_JoystickClose")
        /\ ~steerLog[1].seen.polling => ~SteerCalled("m_pollTimer->stop")

\* disconnectDevice ran on a connected, polled device steered off centre.
C36_Witness ==
    /\ SteerRan("disconnectDevice")
    /\ steerLog[1].seen.connected
    /\ steerLog[1].seen.polling
    /\ steerLog[1].seen.deviceName # ""
    /\ steerLog[1].seen.steering # 0
    /\ steerLog[1].seen.throttle # 0
    /\ SteerCalled("SDL_JoystickClose")

\* ---------------------------------------------------------------------- C37
\* The messages of the step, oldest first
SentIn(log) == SelectSeq(log, LAMBDA e : e.kind = "send")

\* The socket is connected from its signal connected() to its signal
\* disconnected().
SocketUp(state) == state \in {"connected", "closing"}

\* Every message of the step was sent with the service and the socket connected.
C37_SentOnlyWhileConnected ==
    \A i \in 1..Len(steerLog') :
        steerLog'[i].kind = "send" =>
            steerLog'[i].seen.isConnected /\ SocketUp(steerLog'[i].seen.socket)

\* A step that starts and ends disconnected sends nothing.
C37_SilentWhileDisconnected ==
    (~m_isConnected /\ ~m_isConnected') => SentIn(steerLog') = <<>>

\* The step in which the socket becomes connected sends the state as it is,
\* once, right after the signal connected().
C37_SentOnceOnConnect ==
    (steerLog' # <<>> /\ steerLog'[1].name = "onConnected") =>
        /\ Len(SentIn(steerLog')) = 1
        /\ Len(steerLog') = 3
        /\ steerLog'[2].kind = "signal" /\ steerLog'[2].name = "connected"
        /\ steerLog'[3].kind = "send"
        /\ steerLog'[3].payload.angle = m_steering
        /\ steerLog'[3].payload.throttle = m_throttle

\* connectToServer on a connected service touches nothing.
C37_ConnectWhileConnectedIsNoOp ==
    (m_isConnected /\ steerLog' # <<>> /\ steerLog'[1].name = "connectToServer") =>
        /\ UNCHANGED <<m_webSocket, m_isConnected>>
        /\ Len(steerLog') = 1

C37_Step ==
    /\ C37_SentOnlyWhileConnected
    /\ C37_SilentWhileDisconnected
    /\ C37_SentOnceOnConnect
    /\ C37_ConnectWhileConnectedIsNoOp

\* C37: the service transmits steering data only while its WebSocket is
\* connected: a steering, throttle or connection change that occurs while
\* disconnected sends nothing, the current state is sent once immediately when
\* the socket becomes connected, and connectToServer called while already
\* connected leaves the existing connection untouched.
C37_TransmitsOnlyWhileConnected == [][C37_Step]_vars

\* A poll changed the steering while the service was disconnected: a signal
\* and no message.
C37_SilentChange ==
    /\ SteerRan("pollJoystick")
    /\ ~m_isConnected
    /\ \E i \in 1..Len(steerLog) : steerLog[i].name = "steeringChanged"
    /\ SentIn(steerLog) = <<>>

\* connectToServer ran on a connected service.
C37_ConnectWhileConnected ==
    /\ SteerRan("connectToServer")
    /\ steerLog[1].seen.isConnected
    /\ m_webSocket = "connected"

\* The socket became connected with the wheel off centre: that state was sent.
C37_Witness ==
    /\ SteerRan("onConnected")
    /\ m_isConnected
    /\ Len(SentIn(steerLog)) = 1
    /\ SentIn(steerLog)[1].payload.angle # 0
    /\ SentIn(steerLog)[1].payload.angle = m_steering

\* ---------------------------------------------------------------------- C38
\* A handle is open: m_joystick is set and SDL has the handle.
HandleOpen == m_joystick # NULL /\ m_joystick \in DOMAIN sdl.open

\* C38: in every state between operations of the controller, connected is true
\* if and only if a joystick handle is open, and the poll timer is active if
\* and only if connected is true; a failed open leaves all three false/absent.
C38_ConnectedHandleTimer ==
    /\ m_connected <=> HandleOpen
    /\ m_joystick # NULL => m_joystick \in DOMAIN sdl.open
    /\ m_pollTimer <=> m_connected
    /\ SteerCalled("SDL_JoystickOpen:NULL") =>
           ~m_connected /\ m_joystick = NULL /\ ~m_pollTimer /\ DOMAIN sdl.open = {}

\* connectDevice ran on a connected controller and SDL_JoystickOpen failed.
C38_Witness ==
    /\ SteerRan("connectDevice")
    /\ steerLog[1].seen.connected
    /\ steerLog[1].seen.polling
    /\ SteerCalled("SDL_JoystickOpen:NULL")
    /\ ~m_connected

\* ---------------------------------------------------------------------- C39
\* m_frameCounter is an int of 32 bits.
C39_Width == m_frameCounter \in INT_MIN..INT_MAX

\* A hand-off applied below INT_MAX counts one up and makes a new identifier
\* of the count; the hand-off applied at INT_MAX (the 2^31-th frame) does not
\* increase the counter; no other step writes the counter.
C39_Step ==
    IF Ran("lambda")'
    THEN IF m_frameCounter < INT_MAX
         THEN /\ m_frameCounter' = m_frameCounter + 1
              /\ m_frameId' = FrameIdOf(m_frameCounter')
              /\ m_frameId' # m_frameId
         ELSE ~(m_frameCounter' > m_frameCounter)
    ELSE UNCHANGED m_frameCounter

\* C39: the frame counter behind the frame identifier is a signed 32-bit
\* integer incremented once per applied frame and never reset; it stays
\* strictly increasing, and the identifier distinct from the earlier ones, only
\* while fewer than 2^31 frames have been applied.
C39_CounterIncreasesBelowLimit == [](C39_Width) /\ [][C39_Step]_vars

\* The hand-off at INT_MAX was applied: the counter did not increase.
C39_Witness ==
    /\ Ran("lambda")
    /\ trace[1].seen.frameId = FrameIdOf(INT_MAX)
    /\ m_frameCounter \in {INT_MIN, INT_MAX}
    /\ handedOff = MaxFrames

====
